---------------------------- MODULE Spec2Model ----------------------------
(***************************************************************************)
(* Frame scheduler and swapchain manager of VkGameProjectOne:              *)
(* Application::mainLoop driving VulkanEngine::updateCubeRotation and      *)
(* VulkanEngine::drawFrame, the swapchain rebuild (recreateSwapChain,      *)
(* cleanupSwapChain and the create* functions) and the GPU that completes  *)
(* submitted work asynchronously.                                          *)
(*                                                                         *)
(* Vulkan objects are handles: a positive integer names a created object,  *)
(* VK_NULL_HANDLE is 0.  The set engine.live holds the handles created and *)
(* not yet destroyed; engine.doubleDestroy records a destroy call on a     *)
(* handle that is not live.                                                *)
(***************************************************************************)
EXTENDS Integers, Sequences, FiniteSets, TLC

\* ------------------------------------------------------------------ bounds
\* iterations of the main loop before the quit event arrives
MaxIterations == 2
\* resize events delivered to one event-polling pass
MaxEvents == 2
\* greatest width or height of the extents given to chooseSwapExtent alone
MaxExtent == 2
\* Vulkan calls in one run that return a failure
MaxFailures == 1
\* physical devices enumerated, and queue families of one device
MaxDevices == 2
MaxFamilies == 2
\* surface formats and present modes of one report, and its minImageCount
MaxFormats == 2
MaxModes == 2
MaxCount == 3
MaxGrid == 3

\* --------------------------------------------------------------- constants
MAX_FRAMES_IN_FLIGHT == 2
VK_NULL_HANDLE == 0
\* std::numeric_limits<uint32_t>::max(), the "undefined extent" sentinel
\* 0xFFFFFFFF; TLC evaluates 32-bit signed integers, so the greatest of
\* them stands for it (no modelled size comes near it)
UINT32_MAX == 2147483647

Slots == 0 .. (MAX_FRAMES_IN_FLIGHT - 1)

VK_SUCCESS == "VK_SUCCESS"
VK_SUBOPTIMAL_KHR == "VK_SUBOPTIMAL_KHR"
VK_ERROR_OUT_OF_DATE_KHR == "VK_ERROR_OUT_OF_DATE_KHR"
\* stands for every other (fatal) VkResult
VK_ERROR_DEVICE_LOST == "VK_ERROR_DEVICE_LOST"

AcquireResults ==
    {VK_SUCCESS, VK_SUBOPTIMAL_KHR, VK_ERROR_OUT_OF_DATE_KHR, VK_ERROR_DEVICE_LOST}
SubmitResults == {VK_SUCCESS, VK_ERROR_DEVICE_LOST}
WaitResults == {VK_SUCCESS, VK_ERROR_DEVICE_LOST}
\* vkResetFences, vkResetCommandBuffer
ResetResults == {VK_SUCCESS, VK_ERROR_DEVICE_LOST}
\* vkDeviceWaitIdle
IdleResults == {VK_SUCCESS, VK_ERROR_DEVICE_LOST}
PresentResults ==
    {VK_SUCCESS, VK_SUBOPTIMAL_KHR, VK_ERROR_OUT_OF_DATE_KHR, VK_ERROR_DEVICE_LOST}

\* ------------------------------------------------------------- environment
\* drawable sizes the window system reports (0 = minimized)
Extent(w, h) == [width |-> w, height |-> h]
DrawableSizes == {Extent(2, 2), Extent(5, 2), Extent(0, 2)}
UndefinedExtent == Extent(UINT32_MAX, UINT32_MAX)

B8G8R8A8_SRGB == [format |-> "VK_FORMAT_B8G8R8A8_SRGB",
                  colorSpace |-> "VK_COLOR_SPACE_SRGB_NONLINEAR_KHR"]
R8G8B8A8_UNORM == [format |-> "VK_FORMAT_R8G8B8A8_UNORM",
                   colorSpace |-> "VK_COLOR_SPACE_SRGB_NONLINEAR_KHR"]

\* what querySwapChainSupport can report for the surface (extent aside)
SurfaceKinds ==
    { [defined |-> FALSE, minImageCount |-> 2, maxImageCount |-> 0,
       formats |-> <<R8G8B8A8_UNORM, B8G8R8A8_SRGB>>,
       presentModes |-> <<"VK_PRESENT_MODE_FIFO_KHR", "VK_PRESENT_MODE_MAILBOX_KHR">>],
      [defined |-> TRUE, minImageCount |-> 2, maxImageCount |-> 2,
       formats |-> <<R8G8B8A8_UNORM>>,
       presentModes |-> <<"VK_PRESENT_MODE_FIFO_KHR">>] }

SwapChainSupport(kind, size) ==
    [capabilities |-> [currentExtent |->
                           IF kind.defined THEN size ELSE UndefinedExtent,
                       minImageExtent |-> Extent(1, 1),
                       maxImageExtent |-> Extent(4, 4),
                       minImageCount |-> kind.minImageCount,
                       maxImageCount |-> kind.maxImageCount],
     formats |-> kind.formats,
     presentModes |-> kind.presentModes]

\* ----------------------------------------------------------------- helpers
\* std::clamp(v, lo, hi)
Clamp(v, lo, hi) == IF v < lo THEN lo ELSE IF hi < v THEN hi ELSE v

Range(s) == {s[i] : i \in 1 .. Len(s)}
\* a vector of n null handles (std::vector::resize on an empty vector)
Nulls(n) == [i \in 1 .. n |-> VK_NULL_HANDLE]

\* F of the value of x
With(x, F(_)) == CHOOSE r \in {F(v) : v \in {x}} : TRUE

\* vkDestroy*(device, h, nullptr): destroying VK_NULL_HANDLE is a no-op
Destroy(E, h) ==
    IF h = VK_NULL_HANDLE THEN E
    ELSE [E EXCEPT !.live = @ \ {h},
                   !.doubleDestroy = @ \/ (h \notin E.live)]

RECURSIVE DestroyAll(_, _)
DestroyAll(E, hs) ==
    IF hs = <<>> THEN E ELSE DestroyAll(Destroy(E, Head(hs)), Tail(hs))

\* vkCreate* / vkAllocate*: a fresh handle
NewHandle(E) == E.nextHandle
Created(E, n) == [E EXCEPT !.live = @ \cup (E.nextHandle .. (E.nextHandle + n - 1)),
                           !.nextHandle = @ + n]

\* ------------------------------------------------- swapchain configuration
\* a selection that looks at the format and not at the colour space
chooseSwapSurfaceFormatAnyColorSpace(availableFormats) ==
    LET preferred == {i \in 1 .. Len(availableFormats) :
                         availableFormats[i].format = B8G8R8A8_SRGB.format}
    IN  IF preferred # {}
        THEN availableFormats[CHOOSE i \in preferred : \A j \in preferred : i <= j]
        ELSE availableFormats[1]

\* VulkanEngine::chooseSwapSurfaceFormat
chooseSwapSurfaceFormat(availableFormats) ==
    LET preferred == {i \in 1 .. Len(availableFormats) :
                         availableFormats[i] = B8G8R8A8_SRGB}
    IN  IF preferred # {}
        THEN availableFormats[CHOOSE i \in preferred : \A j \in preferred : i <= j]
        ELSE availableFormats[1]

\* a selection that takes the first mode reported
chooseSwapPresentModeFirst(availablePresentModes) ==
    IF availablePresentModes # <<>> THEN availablePresentModes[1]
    ELSE "VK_PRESENT_MODE_FIFO_KHR"

\* VulkanEngine::chooseSwapPresentMode
chooseSwapPresentMode(availablePresentModes) ==
    IF "VK_PRESENT_MODE_MAILBOX_KHR" \in Range(availablePresentModes)
    THEN "VK_PRESENT_MODE_MAILBOX_KHR"
    ELSE "VK_PRESENT_MODE_FIFO_KHR"

\* an extent selection that leaves out the clamp
chooseSwapExtentUnclamped(capabilities, drawable) ==
    IF capabilities.currentExtent.width # UINT32_MAX
    THEN capabilities.currentExtent
    ELSE Extent(drawable.width, drawable.height)

\* VulkanEngine::chooseSwapExtent; drawable is SDL_Vulkan_GetDrawableSize
chooseSwapExtent(capabilities, drawable) ==
    IF capabilities.currentExtent.width # UINT32_MAX
    THEN capabilities.currentExtent
    ELSE Extent(Clamp(drawable.width, capabilities.minImageExtent.width,
                      capabilities.maxImageExtent.width),
                Clamp(drawable.height, capabilities.minImageExtent.height,
                      capabilities.maxImageExtent.height))

\* an image count that is clamped also when maxImageCount is 0
chooseImageCountAlwaysClamped(capabilities) ==
    IF capabilities.minImageCount + 1 > capabilities.maxImageCount
    THEN capabilities.maxImageCount
    ELSE capabilities.minImageCount + 1

\* the image count createSwapChain requests
chooseImageCount(capabilities) ==
    IF capabilities.maxImageCount > 0
       /\ capabilities.minImageCount + 1 > capabilities.maxImageCount
    THEN capabilities.maxImageCount
    ELSE capabilities.minImageCount + 1

\* ------------------------------------------------------ object creation
\* Each create function takes the engine E and the point at which one of
\* its Vulkan calls fails (0: none fails); a failing call throws, leaving
\* what was created before it.

\* VulkanEngine::createSwapChain
createSwapChain(E, support, drawable, failAt) ==
    IF failAt # 0 THEN E
    ELSE LET h == NewHandle(E)
             n == chooseImageCount(support.capabilities)
         IN  [Created(E, 1) EXCEPT
                 !.swapChain = h,
                 !.swapChainImages = [i \in 1 .. n |-> h],
                 !.swapChainImageFormat =
                     chooseSwapSurfaceFormat(support.formats).format,
                 !.swapChainExtent =
                     chooseSwapExtent(support.capabilities, drawable)]

\* the handles written by a loop of n create calls of which call failAt fails
CreatedUpTo(E, n, failAt) ==
    [i \in 1 .. n |-> IF failAt = 0 \/ i < failAt
                      THEN E.nextHandle + i - 1 ELSE VK_NULL_HANDLE]
CountUpTo(n, failAt) == IF failAt = 0 THEN n ELSE failAt - 1

\* VulkanEngine::createImageViews
createImageViews(E, failAt) ==
    LET n == Len(E.swapChainImages)
    IN  [Created(E, CountUpTo(n, failAt)) EXCEPT
            !.swapChainImageViews = CreatedUpTo(E, n, failAt)]

\* VulkanEngine::createRenderPass: colorAttachment.format is
\* swapChainImageFormat
createRenderPass(E, failAt) ==
    IF failAt # 0 THEN E
    ELSE [Created(E, 1) EXCEPT !.renderPass = NewHandle(E),
                               !.builtWith.format = E.swapChainImageFormat]

\* VulkanEngine::createGraphicsPipeline
\*   failAt 1: vertex shader module, 2: fragment shader module,
\*          3: pipeline layout, 4: pipeline
createGraphicsPipeline(E, failAt) ==
    LET vert == E.nextHandle
        frag == E.nextHandle + 1
        layout == E.nextHandle + 2
        pipeline == E.nextHandle + 3
    IN  CASE failAt = 1 -> E
          [] failAt = 2 -> [Created(E, 1) EXCEPT !.shaderModules = @ \cup {vert}]
          [] failAt = 3 -> [Created(E, 2) EXCEPT !.shaderModules = @ \cup {vert, frag}]
          [] failAt = 4 -> [Created(E, 3) EXCEPT !.shaderModules = @ \cup {vert, frag},
                                                 !.pipelineLayout = layout]
          [] OTHER ->
                LET e1 == [Created(E, 4) EXCEPT !.pipelineLayout = layout,
                                               !.graphicsPipeline = pipeline,
                                               !.builtWith.pipelineRenderPass =
                                                   E.renderPass]
                IN  Destroy(Destroy(e1, frag), vert)

\* a createFramebuffers that makes no framebuffer for the last image view
createFramebuffersSkipsLast(E, failAt) ==
    LET n == Len(E.swapChainImageViews) - 1
    IN  [Created(E, CountUpTo(n, failAt)) EXCEPT
            !.swapChainFramebuffers = CreatedUpTo(E, n, failAt)]

\* VulkanEngine::createFramebuffers: framebufferInfo.renderPass is renderPass
createFramebuffers(E, failAt) ==
    LET n == Len(E.swapChainImageViews)
    IN  [Created(E, CountUpTo(n, failAt)) EXCEPT
            !.swapChainFramebuffers = CreatedUpTo(E, n, failAt),
            !.builtWith.framebufferRenderPass =
                IF CountUpTo(n, failAt) > 0 THEN E.renderPass ELSE @]

\* one iteration of the loop of createUniformBuffers (createBuffer, vkMapMemory)
\*   stage 1: vkCreateBuffer fails, 2: vkAllocateMemory or vkBindBufferMemory
\*   fails, 3: vkMapMemory fails, 0: the iteration succeeds
createUniformBuffer(E, i, stage) ==
    LET buf == E.nextHandle
        mem == E.nextHandle + 1
    IN  CASE stage = 1 -> E
          [] stage = 2 -> [Created(E, 1) EXCEPT !.uniformBuffers[i] = buf]
          [] stage = 3 -> [Created(E, 2) EXCEPT !.uniformBuffers[i] = buf,
                                                 !.uniformBuffersMemory[i] = mem]
          [] OTHER -> [Created(E, 2) EXCEPT !.uniformBuffers[i] = buf,
                                             !.uniformBuffersMemory[i] = mem,
                                             !.uniformBuffersMapped[i] = TRUE]

RECURSIVE createUniformBuffersFrom(_, _, _)
createUniformBuffersFrom(E, i, failAt) ==
    IF i > MAX_FRAMES_IN_FLIGHT THEN E
    ELSE IF failAt # 0 /\ (failAt - 1) \div 3 = i - 1
         THEN createUniformBuffer(E, i, ((failAt - 1) % 3) + 1)
         ELSE createUniformBuffersFrom(createUniformBuffer(E, i, 0), i + 1, failAt)

\* VulkanEngine::createUniformBuffers
\*   failAt = 3 * (i - 1) + stage: iteration i fails at the stage
createUniformBuffers(E, failAt) ==
    createUniformBuffersFrom(
        [E EXCEPT !.uniformBuffers = Nulls(MAX_FRAMES_IN_FLIGHT),
                  !.uniformBuffersMemory = Nulls(MAX_FRAMES_IN_FLIGHT),
                  !.uniformBuffersMapped = [i \in 1 .. MAX_FRAMES_IN_FLIGHT |-> FALSE]],
        1, failAt)

\* VulkanEngine::createDescriptorPool
createDescriptorPool(E, failAt) ==
    IF failAt # 0 THEN E
    ELSE [Created(E, 1) EXCEPT !.descriptorPool = NewHandle(E)]

\* a createDescriptorSets that allocates nothing when the sets are there
createDescriptorSetsKeepsOld(E, failAt) ==
    IF failAt # 0 \/ E.descriptorSets # <<>> THEN E
    ELSE [E EXCEPT !.descriptorSets =
             [i \in 1 .. MAX_FRAMES_IN_FLIGHT |->
                 [pool |-> E.descriptorPool, buffer |-> E.uniformBuffers[i]]]]

\* descriptor set i written with the uniform buffer of the slot after i
createDescriptorSetsShifted(E, failAt) ==
    IF failAt # 0 THEN E
    ELSE [E EXCEPT !.descriptorSets =
             [i \in 1 .. MAX_FRAMES_IN_FLIGHT |->
                 [pool |-> E.descriptorPool,
                  buffer |-> E.uniformBuffers[(i % MAX_FRAMES_IN_FLIGHT) + 1]]]]

\* VulkanEngine::createDescriptorSets: set i is allocated from the pool and
\* written to refer to uniform buffer i; the sets are freed with the pool
createDescriptorSets(E, failAt) ==
    IF failAt # 0 THEN E
    ELSE [E EXCEPT !.descriptorSets =
             [i \in 1 .. MAX_FRAMES_IN_FLIGHT |->
                 [pool |-> E.descriptorPool, buffer |-> E.uniformBuffers[i]]]]

\* the create calls of recreateSwapChain, in order; fail.step names the
\* function that throws (0: none) and fail.at the failing call inside it
At(fail, step) == IF fail.step = step THEN fail.at ELSE 0
Runs(fail, step) == fail.step = 0 \/ fail.step >= step

\* a recreateSwapChain that builds the pipeline before the render pass
CreateStepPipelineFirst(step, E, sup, size, fail) ==
    IF ~Runs(fail, step) THEN E
    ELSE With(E, LAMBDA e :
         CASE step = 1 -> createSwapChain(e, sup, size, At(fail, 1))
           [] step = 2 -> createImageViews(e, At(fail, 2))
           [] step = 3 -> createGraphicsPipeline(e, At(fail, 3))
           [] step = 4 -> createRenderPass(e, At(fail, 4))
           [] step = 5 -> createFramebuffers(e, At(fail, 5))
           [] step = 6 -> createUniformBuffers(e, At(fail, 6))
           [] step = 7 -> createDescriptorPool(e, At(fail, 7))
           [] OTHER -> createDescriptorSets(e, At(fail, 8)))

\* call number step of recreateSwapChain, skipped after a throw
CreateStep(step, E, sup, size, fail) ==
    IF ~Runs(fail, step) THEN E
    ELSE With(E, LAMBDA e :
         CASE step = 1 -> createSwapChain(e, sup, size, At(fail, 1))
           [] step = 2 -> createImageViews(e, At(fail, 2))
           [] step = 3 -> createRenderPass(e, At(fail, 3))
           [] step = 4 -> createGraphicsPipeline(e, At(fail, 4))
           [] step = 5 -> createFramebuffers(e, At(fail, 5))
           [] step = 6 -> createUniformBuffers(e, At(fail, 6))
           [] step = 7 -> createDescriptorPool(e, At(fail, 7))
           [] OTHER -> createDescriptorSets(e, At(fail, 8)))

RECURSIVE CreateSteps(_, _, _, _, _)
CreateSteps(step, E, sup, size, fail) ==
    IF step > 8 THEN E
    ELSE CreateSteps(step + 1, CreateStep(step, E, sup, size, fail), sup, size, fail)

createSwapChainObjects(E, sup, size, fail) == CreateSteps(1, E, sup, size, fail)

NoFailure == [step |-> 0, at |-> 0]
\* the points at which a rebuild with this surface can fail
Failures(support) ==
    LET n == chooseImageCount(support.capabilities)
        calls == [s \in 1 .. 8 |->
                     CASE s \in {2, 5} -> n
                       [] s = 4 -> 4
                       [] s = 6 -> 3 * MAX_FRAMES_IN_FLIGHT
                       [] OTHER -> 1]
    IN  {NoFailure} \cup
        UNION {{[step |-> s, at |-> a] : a \in 1 .. calls[s]} : s \in 1 .. 8}

\* ------------------------------------------------------------- teardown
\* E.destroyed lists, in the order of the calls, the members of which the
\* teardown running (or the last one run) has destroyed an object
Torn(E, field, any) == IF any THEN Append(E.destroyed, field) ELSE E.destroyed

\* if (h != VK_NULL_HANDLE) vkDestroy*(device, h, nullptr); h = VK_NULL_HANDLE;
DestroyHandle(E, field) ==
    With(E, LAMBDA e :
        [Destroy(e, e[field]) EXCEPT ![field] = VK_NULL_HANDLE,
                                     !.destroyed = Torn(e, field, e[field] # VK_NULL_HANDLE)])

\* a teardown that clears the vector and destroys nothing
DestroyVectorLeak(E, field) == [E EXCEPT ![field] = <<>>]

\* for (auto h : v) vkDestroy*(device, h, nullptr); v.clear();
DestroyVector(E, field) ==
    With(E, LAMBDA e :
        [DestroyAll(e, e[field]) EXCEPT ![field] = <<>>,
                                        !.destroyed = Torn(e, field, e[field] # <<>>)])

\* cleanupSwapChain: the uniform buffers, their memory and mapped pointers
DestroyUniformBuffers(E) ==
    With(E, LAMBDA e :
    [DestroyAll(DestroyAll(e, e.uniformBuffers),
                SubSeq(e.uniformBuffersMemory, 1, Len(e.uniformBuffers)))
        EXCEPT !.uniformBuffers = <<>>,
               !.uniformBuffersMemory = <<>>,
               !.uniformBuffersMapped = <<>>,
               !.destroyed = Torn(e, "uniformBuffers", e.uniformBuffers # <<>>)])

\* a teardown that destroys the image views and the swapchain before the
\* framebuffers and the pipeline objects
cleanupSwapChainViewsFirst(E) ==
    LET e0 == [E EXCEPT !.destroyed = <<>>]
        e1 == DestroyVector(e0, "swapChainImageViews")
        e2 == DestroyHandle(e1, "swapChain")
        e3 == DestroyVector(e2, "swapChainFramebuffers")
        e4 == DestroyHandle(e3, "graphicsPipeline")
        e5 == DestroyHandle(e4, "pipelineLayout")
        e6 == DestroyHandle(e5, "renderPass")
        e7 == DestroyUniformBuffers(e6)
        e8 == DestroyHandle(e7, "descriptorPool")
    IN  e8

\* a cleanupSwapChain that forgets the descriptor pool without destroying it
cleanupSwapChainLeavesPool(E) ==
    LET e0 == [E EXCEPT !.destroyed = <<>>]
        e1 == DestroyVector(e0, "swapChainFramebuffers")
        e2 == DestroyHandle(e1, "graphicsPipeline")
        e3 == DestroyHandle(e2, "pipelineLayout")
        e4 == DestroyHandle(e3, "renderPass")
        e5 == DestroyVector(e4, "swapChainImageViews")
        e6 == DestroyHandle(e5, "swapChain")
        e7 == DestroyUniformBuffers(e6)
    IN  [e7 EXCEPT !.descriptorPool = VK_NULL_HANDLE]

\* VulkanEngine::cleanupSwapChain
cleanupSwapChain(E) ==
    LET e0 == [E EXCEPT !.destroyed = <<>>]
        e1 == DestroyVector(e0, "swapChainFramebuffers")
        e2 == DestroyHandle(e1, "graphicsPipeline")
        e3 == DestroyHandle(e2, "pipelineLayout")
        e4 == DestroyHandle(e3, "renderPass")
        e5 == DestroyVector(e4, "swapChainImageViews")
        e6 == DestroyHandle(e5, "swapChain")
        e7 == DestroyUniformBuffers(e6)
        e8 == DestroyHandle(e7, "descriptorPool")
    IN  e8

\* a cleanup that destroys the surface before the logical device
cleanupSurfaceFirst(E) ==
    LET e1 == cleanupSwapChain(E)
        e2 == DestroyHandle(e1, "descriptorSetLayout")
        e3 == DestroyHandle(DestroyHandle(e2, "indexBuffer"), "indexBufferMemory")
        e4 == DestroyHandle(DestroyHandle(e3, "vertexBuffer"), "vertexBufferMemory")
        e5 == DestroyVector(DestroyVector(DestroyVector(e4,
                  "renderFinishedSemaphores"), "imageAvailableSemaphores"),
                  "inFlightFences")
        e6 == DestroyHandle(e5, "commandPool")
        e7 == DestroyHandle(e6, "surface")
        e8 == DestroyHandle(e7, "device")
        e9 == DestroyHandle(e8, "debugMessenger")
        e10 == DestroyHandle(e9, "instance")
    IN  e10

\* VulkanEngine::cleanup
cleanup(E) ==
    LET e1 == cleanupSwapChain(E)
        e2 == DestroyHandle(e1, "descriptorSetLayout")
        e3 == DestroyHandle(DestroyHandle(e2, "indexBuffer"), "indexBufferMemory")
        e4 == DestroyHandle(DestroyHandle(e3, "vertexBuffer"), "vertexBufferMemory")
        e5 == DestroyVector(DestroyVector(DestroyVector(e4,
                  "renderFinishedSemaphores"), "imageAvailableSemaphores"),
                  "inFlightFences")
        e6 == DestroyHandle(e5, "commandPool")
        e7 == DestroyHandle(e6, "device")
        e8 == DestroyHandle(e7, "debugMessenger")
        e9 == DestroyHandle(e8, "surface")
        e10 == DestroyHandle(e9, "instance")
    IN  e10

\* --------------------------------------------------------- initialisation
\* the members of VulkanEngine before initVulkan (VulkanEngine.h);
\* builtWith keeps what the create infos of the last create calls named: the
\* attachment format of the render pass, and the render pass given to the
\* pipeline and to the framebuffers; shaderModules and staging keep the
\* handles that only locals of a function that has thrown have held
NullEngine ==
    [instance |-> VK_NULL_HANDLE, debugMessenger |-> VK_NULL_HANDLE,
     surface |-> VK_NULL_HANDLE, device |-> VK_NULL_HANDLE,
     swapChain |-> VK_NULL_HANDLE, swapChainImages |-> <<>>,
     swapChainImageFormat |-> "VK_FORMAT_UNDEFINED",
     swapChainExtent |-> Extent(0, 0),
     swapChainImageViews |-> <<>>, swapChainFramebuffers |-> <<>>,
     renderPass |-> VK_NULL_HANDLE, descriptorSetLayout |-> VK_NULL_HANDLE,
     pipelineLayout |-> VK_NULL_HANDLE, graphicsPipeline |-> VK_NULL_HANDLE,
     commandPool |-> VK_NULL_HANDLE, commandBuffers |-> <<>>,
     vertexBuffer |-> VK_NULL_HANDLE, vertexBufferMemory |-> VK_NULL_HANDLE,
     indexBuffer |-> VK_NULL_HANDLE, indexBufferMemory |-> VK_NULL_HANDLE,
     uniformBuffers |-> <<>>, uniformBuffersMemory |-> <<>>,
     uniformBuffersMapped |-> <<>>,
     descriptorPool |-> VK_NULL_HANDLE, descriptorSets |-> <<>>,
     imageAvailableSemaphores |-> <<>>, renderFinishedSemaphores |-> <<>>,
     inFlightFences |-> <<>>,
     shaderModules |-> {}, live |-> {}, nextHandle |-> 1,
     doubleDestroy |-> FALSE, destroyed |-> <<>>, staging |-> {},
     builtWith |-> [format |-> "VK_FORMAT_UNDEFINED",
                    pipelineRenderPass |-> VK_NULL_HANDLE,
                    framebufferRenderPass |-> VK_NULL_HANDLE]]

\* one vkCreate* call storing its handle in a member
CreateHandle(E, field) == [Created(E, 1) EXCEPT ![field] = NewHandle(E)]

\* VulkanEngine::createCommandBuffers: the buffers belong to the command pool
createCommandBuffers(E) ==
    [E EXCEPT !.commandBuffers = [i \in 1 .. MAX_FRAMES_IN_FLIGHT |-> E.commandPool]]

\* one vkCreate* call whose result is checked, storing its handle in a member
CreateHandleChecked(E, field, failAt) ==
    IF failAt # 0 THEN E ELSE CreateHandle(E, field)

\* VulkanEngine::createVertexBuffer and createIndexBuffer: a staging buffer
\* held in locals, the member buffer, the copy, and the release of the
\* staging buffer; a throw leaves the staging buffer to nobody
\*   failAt 1: vkCreateBuffer (staging), 2: vkAllocateMemory (staging),
\*          3: vkBindBufferMemory (staging), 4: vkMapMemory (checked by
\*          createVertexBuffer only), 5: vkCreateBuffer, 6: vkAllocateMemory,
\*          7: vkBindBufferMemory, 8: a call of copyBuffer
createStagedBuffer(E, buffer, memory, failAt) ==
    LET stagingBuffer == E.nextHandle
        stagingBufferMemory == E.nextHandle + 1
        b == E.nextHandle + 2
        m == E.nextHandle + 3
    IN  CASE failAt = 1 -> E
          [] failAt = 2 ->
                [Created(E, 1) EXCEPT !.staging = @ \cup {stagingBuffer}]
          [] failAt \in {3, 4, 5} ->
                [Created(E, 2) EXCEPT
                    !.staging = @ \cup {stagingBuffer, stagingBufferMemory}]
          [] failAt = 6 ->
                [Created(E, 3) EXCEPT
                    !.staging = @ \cup {stagingBuffer, stagingBufferMemory},
                    ![buffer] = b]
          [] failAt \in {7, 8} ->
                [Created(E, 4) EXCEPT
                    !.staging = @ \cup {stagingBuffer, stagingBufferMemory},
                    ![buffer] = b, ![memory] = m]
          [] OTHER ->
                Destroy(Destroy([Created(E, 4) EXCEPT ![buffer] = b, ![memory] = m],
                                stagingBuffer), stagingBufferMemory)

\* one iteration of the loop of createSyncObjects: the three create calls
\* are all made, and the results are looked at after them
\*   failed 1: vkCreateSemaphore (image available), 2: vkCreateSemaphore
\*   (render finished), 3: vkCreateFence, 0: none
createSlotSyncObjects(E, i, failed) ==
    LET c1 == IF failed = 1 THEN 0 ELSE 1
        c2 == c1 + (IF failed = 2 THEN 0 ELSE 1)
        c3 == c2 + (IF failed = 3 THEN 0 ELSE 1)
    IN  [Created(E, c3) EXCEPT
            !.imageAvailableSemaphores[i] =
                IF failed = 1 THEN VK_NULL_HANDLE ELSE E.nextHandle,
            !.renderFinishedSemaphores[i] =
                IF failed = 2 THEN VK_NULL_HANDLE ELSE E.nextHandle + c1,
            !.inFlightFences[i] =
                IF failed = 3 THEN VK_NULL_HANDLE ELSE E.nextHandle + c2]

RECURSIVE createSyncObjectsFrom(_, _, _)
createSyncObjectsFrom(E, i, failAt) ==
    IF i > MAX_FRAMES_IN_FLIGHT THEN E
    ELSE IF failAt # 0 /\ (failAt - 1) \div 3 = i - 1
         THEN createSlotSyncObjects(E, i, ((failAt - 1) % 3) + 1)
         ELSE createSyncObjectsFrom(createSlotSyncObjects(E, i, 0), i + 1, failAt)

\* VulkanEngine::createSyncObjects, the handles: call failAt fails (0: none)
createSyncObjectHandles(E, failAt) ==
    createSyncObjectsFrom(
        [E EXCEPT !.imageAvailableSemaphores = Nulls(MAX_FRAMES_IN_FLIGHT),
                  !.renderFinishedSemaphores = Nulls(MAX_FRAMES_IN_FLIGHT),
                  !.inFlightFences = Nulls(MAX_FRAMES_IN_FLIGHT)],
        1, failAt)

\* the calls of initVulkan, in order
InitSteps ==
    <<"createInstance", "setupDebugMessenger", "createSurface",
      "pickPhysicalDevice", "createLogicalDevice", "createSwapChain",
      "createImageViews", "createRenderPass", "createDescriptorSetLayout",
      "createGraphicsPipeline", "createFramebuffers", "createCommandPool",
      "createVertexBuffer", "createIndexBuffer", "createUniformBuffers",
      "createDescriptorPool", "createDescriptorSets", "createCommandBuffers",
      "createSyncObjects">>

\* call number step of initVulkan, of which call failAt fails (0: none);
\* debug: setupDebugMessenger creates the messenger (it never throws)
initStep(step, E, sup, size, debug, failAt) ==
    With(E, LAMBDA e :
        CASE step = 1 -> CreateHandleChecked(e, "instance", failAt)
          [] step = 2 -> IF debug THEN CreateHandle(e, "debugMessenger") ELSE e
          [] step = 3 -> CreateHandleChecked(e, "surface", failAt)
          [] step = 4 -> e
          [] step = 5 -> CreateHandleChecked(e, "device", failAt)
          [] step = 6 -> createSwapChain(e, sup, size, failAt)
          [] step = 7 -> createImageViews(e, failAt)
          [] step = 8 -> createRenderPass(e, failAt)
          [] step = 9 -> CreateHandleChecked(e, "descriptorSetLayout", failAt)
          [] step = 10 -> createGraphicsPipeline(e, failAt)
          [] step = 11 -> createFramebuffers(e, failAt)
          [] step = 12 -> CreateHandleChecked(e, "commandPool", failAt)
          [] step = 13 -> createStagedBuffer(e, "vertexBuffer", "vertexBufferMemory", failAt)
          [] step = 14 -> createStagedBuffer(e, "indexBuffer", "indexBufferMemory", failAt)
          [] step = 15 -> createUniformBuffers(e, failAt)
          [] step = 16 -> createDescriptorPool(e, failAt)
          [] step = 17 -> createDescriptorSets(e, failAt)
          [] step = 18 -> IF failAt # 0
                          THEN [e EXCEPT !.commandBuffers = Nulls(MAX_FRAMES_IN_FLIGHT)]
                          ELSE createCommandBuffers(e)
          [] OTHER -> createSyncObjectHandles(e, failAt))

RECURSIVE InitStepsFrom(_, _, _, _)
InitStepsFrom(step, E, sup, size) ==
    IF step > Len(InitSteps) THEN E
    ELSE InitStepsFrom(step + 1, initStep(step, E, sup, size, TRUE, 0), sup, size)

\* VulkanEngine::initVulkan when every step succeeds
initVulkan(E, sup, size) == InitStepsFrom(1, E, sup, size)

\* ------------------------------------------------------------------ state
VARIABLES
    pc,                 \* position of the main thread
    quit,               \* Application::mainLoop: quit
    iterations,         \* passes of the main loop started so far
    caller,             \* recreateSwapChain's call site: "acquire" or "present"
    engine,             \* the Vulkan objects VulkanEngine owns
    currentFrame,       \* VulkanEngine::currentFrame
    framebufferResized, \* VulkanEngine::framebufferResized
    signaled,           \* signaled[s]: fence inFlightFences[s] is signaled
    gpuPending,         \* gpuPending[s]: the GPU has not finished slot s's submission
    drawable,           \* SDL_Vulkan_GetDrawableSize
    support,            \* querySwapChainSupport(physicalDevice)
    frame,              \* the locals and the progress of the drawFrame call
    waited,             \* waited[s]: fence s was waited on since slot s's last submit
    notes,              \* notifyFramebufferResized calls since the last present check
    rebuild,            \* the progress of the recreateSwapChain call
    inflight,           \* inflight[s]: slot s's frames the GPU and the
                        \* presentation engine still work on, oldest first
    imageAvailable,     \* imageAvailable[s]: imageAvailableSemaphores[s] is signaled
    renderFinished,     \* renderFinished[s]: renderFinishedSemaphores[s] is signaled
    hazards,            \* the orderings the GPU has broken so far
    failures,           \* Vulkan calls that have returned a failure so far
    events,             \* SDL's event queue holds an event
    startup             \* what initialization found, its last step and the result

vars == <<pc, quit, iterations, caller, engine, currentFrame, framebufferResized,
          signaled, gpuPending, drawable, support, frame, waited, notes,
          rebuild, inflight, imageAvailable, renderFinished, hazards, failures, events,
          startup>>

\* the record of a drawFrame call:
\*   slot      the frame cursor at entry
\*   acquire, imageIndex, present   the locals acquireResult, imageIndex and
\*             presentResult
\*   aborted   vkAcquireNextImageKHR reported VK_ERROR_OUT_OF_DATE_KHR
\*   fenceReset, recorded, submitted, presented   the steps made so far
\*   notes     notifyFramebufferResized calls pending at the present check
\*   rebuilds  calls of recreateSwapChain made by this call
\*   outcome   "running", "returned", "ood" (SwapChainOutOfDateError) or
\*             "fatal" (std::runtime_error)
\*   ignored   the call of the step just made that returned a failure the
\*             code does not act on, "none" otherwise
\*   prevSlot, prevOutcome, prevAborted   slot, outcome and aborted of the
\*             call before this one
\* After the call only slot, outcome and aborted are kept.
NoFrame ==
    [slot |-> 0, acquire |-> "none", imageIndex |-> 0, present |-> "none",
     aborted |-> FALSE, fenceReset |-> FALSE, recorded |-> FALSE,
     submitted |-> FALSE, presented |-> FALSE, notes |-> 0, rebuilds |-> 0,
     outcome |-> "none", ignored |-> "none",
     prevSlot |-> 0, prevOutcome |-> "none", prevAborted |-> FALSE]

\* what comparisons of two engine states look at
Shape(E, cursor, flag) ==
    [extent |-> E.swapChainExtent, format |-> E.swapChainImageFormat,
     images |-> Len(E.swapChainImages),
     views |-> Cardinality(Range(E.swapChainImageViews) \cap E.live),
     framebuffers |-> Cardinality(Range(E.swapChainFramebuffers) \cap E.live),
     uniformBuffers |-> Cardinality(Range(E.uniformBuffers) \cap E.live),
     mapped |-> Cardinality({i \in 1 .. Len(E.uniformBuffersMapped) :
                                E.uniformBuffersMapped[i]}),
     descriptorSets |-> Cardinality({i \in 1 .. Len(E.descriptorSets) :
                                E.descriptorSets[i].pool = E.descriptorPool
                                /\ E.descriptorPool \in E.live}),
     swapChain |-> E.swapChain \in E.live,
     renderPass |-> E.renderPass \in E.live,
     pipelineLayout |-> E.pipelineLayout \in E.live,
     graphicsPipeline |-> E.graphicsPipeline \in E.live,
     currentFrame |-> cursor, framebufferResized |-> flag]

\* the handles cleanupSwapChain is responsible for
SwapChainObjects(E) ==
    ( Range(E.swapChainFramebuffers) \cup Range(E.swapChainImageViews)
      \cup Range(E.uniformBuffers) \cup Range(E.uniformBuffersMemory)
      \cup {E.graphicsPipeline, E.pipelineLayout, E.renderPass, E.swapChain,
            E.descriptorPool} ) \ {VK_NULL_HANDLE}

\* the record of recreateSwapChain calls:
\*   clean    a rebuild has completed and no frame was submitted since
\*   surface  the surface the swapchain was last built for
\*   fresh, before, old   (during a call) clean, Shape and SwapChainObjects at
\*            the entry of the call
\*   again    the last completed call started clean and found the surface
\*            it was last built for
\*   minimized  (during a call) width == 0 || height == 0, of the size the
\*            call has last read
\*   stalled  (during a call) the call has been through the body of its
\*            wait loop
NoRebuild ==
    [clean |-> FALSE, surface |-> <<>>, fresh |-> FALSE, before |-> <<>>,
     old |-> {}, again |-> FALSE, minimized |-> FALSE, stalled |-> FALSE]

\* the record of initialization, once it has succeeded
NoStartup == <<>>

\* VulkanEngine::createSyncObjects: the fences are created signaled
createSyncObjects == [s \in Slots |-> TRUE]

\* ------------------------------------------------------------- GPU work
\* a frame from its acquire on:
\*   ready    the presentation engine has released the acquired image (and
\*            signaled the semaphore given to the acquire)
\*   stage    "acquired", "submitted" (vkQueueSubmit made, rendering not
\*            finished) or "rendered"
\*   present  "none", "queued" (vkQueuePresentKHR has queued the request),
\*            "shown" or "failed"
\* A frame is dropped once it has been presented, or rendered with a failed
\* present.
NewFrame == [ready |-> FALSE, stage |-> "acquired", present |-> "none"]

\* the semaphores drawFrame passes for the frame of a slot:
\* vkAcquireNextImageKHR signals imageAvailableSemaphores[currentFrame],
AcquireSignals(slot) == slot
\* the submit waits for imageAvailableSemaphores[currentFrame] at the
\* colour-attachment-output stage
SubmitWaits(slot) == slot
\* and signals renderFinishedSemaphores[currentFrame],
SubmitSignals(slot) == slot
\* for which the present waits (pWaitSemaphores = signalSemaphores)
PresentWaits(slot) == slot

\* index of the oldest frame whose field has the value, 0 if there is none
Oldest(frames, field, value) ==
    LET is == {i \in 1 .. Len(frames) : frames[i][field] = value}
    IN  IF is = {} THEN 0 ELSE CHOOSE i \in is : \A j \in is : i <= j

Remove(frames, i) == SubSeq(frames, 1, i - 1) \o SubSeq(frames, i + 1, Len(frames))

\* the submissions of a slot the GPU has not finished
Submissions(frames) ==
    Cardinality({i \in 1 .. Len(frames) : frames[i].stage = "submitted"})

Init ==
    /\ pc = "poll"
    /\ quit = FALSE
    /\ iterations = 0
    /\ caller = "none"
    /\ drawable = Extent(2, 2)
    /\ \E kind \in SurfaceKinds : support = SwapChainSupport(kind, drawable)
    /\ engine = initVulkan(NullEngine, support, drawable)
    /\ currentFrame = 0
    /\ framebufferResized = FALSE
    /\ signaled = createSyncObjects
    /\ gpuPending = [s \in Slots |-> FALSE]
    /\ frame = NoFrame
    /\ waited = [s \in Slots |-> TRUE]
    /\ notes = 0
    /\ rebuild = [NoRebuild EXCEPT !.surface = <<support, drawable>>]
    /\ inflight = [s \in Slots |-> <<>>]
    /\ imageAvailable = [s \in Slots |-> FALSE]
    /\ renderFinished = [s \in Slots |-> FALSE]
    /\ hazards = {}
    /\ failures = 0
    /\ events = FALSE
    /\ startup = NoStartup

\* ------------------------------------------------------------ main loop
\* a notification that flips the flag instead of setting it
notifyFramebufferResizedToggle(flag) == ~flag

\* VulkanEngine::notifyFramebufferResized
notifyFramebufferResized(flag) == TRUE

\* k resize events handled by one pass of the event loop
RECURSIVE Notified(_, _)
Notified(flag, k) ==
    IF k = 0 THEN flag ELSE Notified(notifyFramebufferResized(flag), k - 1)

\* a loop that stops on SwapChainOutOfDateError as on any other exception
AfterFrameStopsOnOutOfDate(outcome) ==
    /\ frame' = [NoFrame EXCEPT !.slot = frame.slot, !.outcome = outcome,
                                !.aborted = frame.aborted]
    /\ quit' = (quit \/ outcome \in {"fatal", "ood"})
    /\ pc' = IF quit' THEN "dtor" ELSE "poll"

\* a loop that logs every exception of drawFrame and goes on
AfterFrameContinuesOnFatal(outcome) ==
    /\ frame' = [NoFrame EXCEPT !.slot = frame.slot, !.outcome = outcome,
                                !.aborted = frame.aborted]
    /\ quit' = quit
    /\ pc' = IF quit' THEN "dtor" ELSE "poll"

\* Application::mainLoop, the try/catch around drawFrame and the loop test:
\* SwapChainOutOfDateError is logged, any other exception sets quit
AfterFrame(outcome) ==
    /\ frame' = [NoFrame EXCEPT !.slot = frame.slot, !.outcome = outcome,
                                !.aborted = frame.aborted]
    /\ quit' = (quit \/ outcome = "fatal")
    /\ pc' = IF quit' THEN "dtor" ELSE "poll"

\* Application::mainLoop, the SDL_PollEvent loop: k resize events, and the
\* quit event once MaxIterations passes have been made
PollEvents(quitEvent, k) ==
    /\ pc = "poll"
    /\ quitEvent = (iterations >= MaxIterations)
    /\ iterations' = iterations + 1
    /\ quit' = quitEvent
    /\ framebufferResized' = Notified(framebufferResized, k)
    /\ notes' = notes + k
    /\ events' = FALSE
    /\ pc' = "update"
    /\ UNCHANGED <<caller, engine, currentFrame, signaled, gpuPending, drawable,
                   support, frame, waited, rebuild>>
    /\ UNCHANGED <<inflight, imageAvailable, renderFinished, hazards>>
    /\ UNCHANGED <<failures, startup>>

\* VulkanEngine::updateCubeRotation: the active slot's uniform buffer is
\* written when it is mapped
WritesUniformBuffer(E, cursor) ==
    Len(E.uniformBuffersMapped) > cursor /\ E.uniformBuffersMapped[cursor + 1]

\* Application::mainLoop calls updateCubeRotation, then drawFrame
UpdateCubeRotation ==
    /\ pc = "update"
    /\ pc' = "df_wait"
    /\ UNCHANGED <<quit, iterations, caller, engine, currentFrame,
                   framebufferResized, signaled, gpuPending, drawable, support, frame, waited, notes, rebuild>>
    /\ UNCHANGED <<inflight, imageAvailable, renderFinished, hazards>>
    /\ UNCHANGED <<failures, events, startup>>

\* ------------------------------------------------------------ drawFrame
\* vkWaitForFences(.., UINT64_MAX) returns VK_SUCCESS when the fence is
\* signaled
FenceWaitReturns(fences, slot) == fences[slot]

\* what a step leaves in frame.ignored when the code goes on whatever the
\* call returned
Ignored(result, call) == IF result = VK_SUCCESS THEN "none" ELSE call

\* a Vulkan call fails, or succeeds
Failed(failing) ==
    IF failing THEN failures < MaxFailures /\ failures' = failures + 1
    ELSE failures' = failures

\* the result a Vulkan call returns: VK_SUBOPTIMAL_KHR and
\* VK_ERROR_OUT_OF_DATE_KHR are conditions of the swapchain, every other
\* result but VK_SUCCESS is a failure
Returned(result) ==
    Failed(result \notin {VK_SUCCESS, VK_SUBOPTIMAL_KHR, VK_ERROR_OUT_OF_DATE_KHR})

\* drawFrame step 1: wait for the active slot's fence.  The result of
\* vkWaitForFences is not looked at: when the call fails, drawFrame goes on
\* with the fence as it is.  (A failure that finds the fence signaled leaves
\* the state a success leaves, and is left out.)
DfWait(result) ==
    /\ pc = "df_wait"
    /\ IF result = VK_SUCCESS
       THEN FenceWaitReturns(signaled, currentFrame)
       ELSE ~signaled[currentFrame]
    /\ waited' = [waited EXCEPT ![currentFrame] = signaled[currentFrame]]
    /\ frame' = [NoFrame EXCEPT !.slot = currentFrame, !.outcome = "running",
                                !.ignored = Ignored(result, "vkWaitForFences"),
                                !.prevSlot = frame.slot,
                                !.prevOutcome = frame.outcome,
                                !.prevAborted = frame.aborted]
    /\ pc' = "df_acquire"
    /\ UNCHANGED <<quit, iterations, caller, engine, currentFrame,
                   framebufferResized, signaled, gpuPending, drawable, support, notes, rebuild>>
    /\ UNCHANGED <<inflight, imageAvailable, renderFinished, hazards>>
    /\ Returned(result)
    /\ UNCHANGED <<events, startup>>

\* entry of recreateSwapChain from a call site; flag is framebufferResized
\* at the call
EnterRecreate(site, flag) ==
    /\ caller' = site
    /\ pc' = "rc_stall"
    /\ rebuild' = [rebuild EXCEPT
          !.fresh = rebuild.clean, !.minimized = FALSE, !.stalled = FALSE,
          !.before = Shape(engine, currentFrame, flag),
          !.old = SwapChainObjects(engine)]

\* a test of acquireResult that rebuilds on VK_SUBOPTIMAL_KHR as well
AcquireOutcomeStrict(result) ==
    IF result = VK_ERROR_OUT_OF_DATE_KHR \/ result = VK_SUBOPTIMAL_KHR
    THEN "recreate"
    ELSE IF result # VK_SUCCESS THEN "fatal"
    ELSE "proceed"

\* drawFrame, the test of acquireResult
AcquireOutcome(result) ==
    IF result = VK_ERROR_OUT_OF_DATE_KHR THEN "recreate"
    ELSE IF result # VK_SUCCESS /\ result # VK_SUBOPTIMAL_KHR THEN "fatal"
    ELSE "proceed"

\* drawFrame step 2: vkAcquireNextImageKHR and the test of its result
DfAcquire(result, index) ==
    /\ pc = "df_acquire"
    /\ CASE AcquireOutcome(result) = "recreate" ->
            /\ index = 0
            /\ frame' = [frame EXCEPT !.acquire = result, !.rebuilds = @ + 1,
                            !.aborted = (result = VK_ERROR_OUT_OF_DATE_KHR),
                            !.ignored = "none"]
            /\ EnterRecreate("acquire", framebufferResized)
            /\ UNCHANGED <<quit, inflight>>
         [] AcquireOutcome(result) = "fatal" ->
            /\ index = 0
            /\ AfterFrame("fatal")
            /\ UNCHANGED <<caller, rebuild, inflight>>
         [] OTHER ->
            /\ index \in 0 .. (Len(engine.swapChainImages) - 1)
            /\ frame' = [frame EXCEPT !.acquire = result, !.imageIndex = index,
                                      !.ignored = "none"]
            /\ inflight' = [inflight EXCEPT ![currentFrame] = Append(@, NewFrame)]
            /\ pc' = "df_reset"
            /\ UNCHANGED <<quit, caller, rebuild>>
    /\ UNCHANGED <<iterations, engine, currentFrame, framebufferResized, signaled,
                   gpuPending, drawable, support, waited, notes>>
    /\ UNCHANGED <<imageAvailable, renderFinished, hazards>>
    /\ Returned(result)
    /\ UNCHANGED <<events, startup>>

\* vkResetFences on one fence
ResetFence(fences, slot) == [fences EXCEPT ![slot] = FALSE]

\* drawFrame step 3: vkResetFences, whose result is not looked at: a call
\* that fails leaves the fence as it is
DfResetFence(result) ==
    /\ pc = "df_reset"
    /\ signaled' = IF result = VK_SUCCESS THEN ResetFence(signaled, currentFrame)
                   ELSE signaled
    /\ frame' = [frame EXCEPT !.fenceReset = TRUE,
                              !.ignored = Ignored(result, "vkResetFences")]
    /\ pc' = "df_record"
    /\ UNCHANGED <<quit, iterations, caller, engine, currentFrame,
                   framebufferResized, gpuPending, drawable, support,
                   waited, notes, rebuild>>
    /\ UNCHANGED <<inflight, imageAvailable, renderFinished, hazards>>
    /\ Returned(result)
    /\ UNCHANGED <<events, startup>>

\* drawFrame step 4: vkResetCommandBuffer, whose result is not looked at,
\* and recordCommandBuffer, whose vkBeginCommandBuffer / vkEndCommandBuffer
\* may fail
DfRecord(reset, ok) ==
    /\ pc = "df_record"
    /\ IF ok
       THEN /\ frame' = [frame EXCEPT !.recorded = TRUE,
                            !.ignored = Ignored(reset, "vkResetCommandBuffer")]
            /\ pc' = "df_submit"
            /\ UNCHANGED quit
       ELSE AfterFrame("fatal")
    /\ UNCHANGED <<iterations, caller, engine, currentFrame, framebufferResized,
                   signaled, gpuPending, drawable, support, waited,
                   notes, rebuild>>
    /\ UNCHANGED <<inflight, imageAvailable, renderFinished, hazards>>
    /\ IF ok THEN Returned(reset) ELSE reset = VK_SUCCESS /\ Failed(TRUE)
    /\ UNCHANGED <<events, startup>>

\* drawFrame step 5: vkQueueSubmit with the slot's fence
DfSubmit(result) ==
    /\ pc = "df_submit"
    /\ IF result = VK_SUCCESS
       THEN /\ gpuPending' = [gpuPending EXCEPT ![currentFrame] = TRUE]
            /\ waited' = [waited EXCEPT ![currentFrame] = FALSE]
            /\ frame' = [frame EXCEPT !.submitted = TRUE, !.ignored = "none"]
            /\ rebuild' = [rebuild EXCEPT !.clean = FALSE]
            /\ inflight' = [inflight EXCEPT
                  ![currentFrame][Len(inflight[currentFrame])].stage = "submitted"]
            /\ pc' = "df_present"
            /\ UNCHANGED quit
       ELSE /\ AfterFrame("fatal")
            /\ UNCHANGED <<gpuPending, waited, rebuild, inflight>>
    /\ UNCHANGED <<iterations, caller, engine, currentFrame, framebufferResized,
                   signaled, drawable, support, notes>>
    /\ UNCHANGED <<imageAvailable, renderFinished, hazards>>
    /\ Returned(result)
    /\ UNCHANGED <<events, startup>>

\* a test after vkQueuePresentKHR that lets VK_SUBOPTIMAL_KHR pass
NeedsRecreateOutOfDateOnly(presentResult, resized) ==
    presentResult = VK_ERROR_OUT_OF_DATE_KHR \/ resized

\* the test of drawFrame after vkQueuePresentKHR
NeedsRecreate(presentResult, resized) ==
    presentResult = VK_ERROR_OUT_OF_DATE_KHR \/ presentResult = VK_SUBOPTIMAL_KHR
    \/ resized

\* vkQueuePresentKHR on the newest frame of a slot: the request, with its
\* semaphore wait, is queued unless the result is a fatal one
Presented(frames, result) ==
    LET n == Len(frames)
    IN  IF result \in {VK_SUCCESS, VK_SUBOPTIMAL_KHR, VK_ERROR_OUT_OF_DATE_KHR}
        THEN [frames EXCEPT ![n].present = "queued"]
        ELSE IF frames[n].stage = "rendered" THEN Remove(frames, n)
        ELSE [frames EXCEPT ![n].present = "failed"]

\* drawFrame step 6: vkQueuePresentKHR, the last use of imageIndex
DfPresent(result) ==
    /\ pc = "df_present"
    /\ frame' = [frame EXCEPT !.presented = TRUE, !.present = result,
                              !.imageIndex = 0]
    /\ inflight' = [inflight EXCEPT ![currentFrame] = Presented(@, result)]
    /\ pc' = "df_check"
    /\ UNCHANGED <<quit, iterations, caller, engine, currentFrame,
                   framebufferResized, signaled, gpuPending, drawable, support, waited, notes, rebuild>>
    /\ UNCHANGED <<imageAvailable, renderFinished, hazards>>
    /\ Returned(result)
    /\ UNCHANGED <<events, startup>>

\* drawFrame step 6, the test of presentResult and framebufferResized
DfCheckPresent ==
    /\ pc = "df_check"
    /\ notes' = 0
    /\ IF NeedsRecreate(frame.present, framebufferResized)
       THEN /\ framebufferResized' = FALSE
            /\ frame' = [frame EXCEPT !.notes = notes, !.rebuilds = @ + 1]
            /\ EnterRecreate("present", FALSE)
            /\ UNCHANGED quit
       ELSE IF frame.present # VK_SUCCESS
       THEN /\ AfterFrame("fatal")
            /\ UNCHANGED <<caller, rebuild, framebufferResized>>
       ELSE /\ pc' = "df_advance"
            /\ UNCHANGED <<quit, caller, rebuild, framebufferResized, frame>>
    /\ UNCHANGED <<iterations, engine, currentFrame, signaled, gpuPending,
                   drawable, support, waited>>
    /\ UNCHANGED <<inflight, imageAvailable, renderFinished, hazards>>
    /\ UNCHANGED <<failures, events, startup>>

\* a cursor that wraps one slot early
NextFrameWrapsEarly(cursor) == (cursor + 1) % (MAX_FRAMES_IN_FLIGHT - 1)

\* the frame cursor after a frame
NextFrame(cursor) == (cursor + 1) % MAX_FRAMES_IN_FLIGHT

\* drawFrame step 7: advance the frame cursor and return
DfAdvance ==
    /\ pc = "df_advance"
    /\ currentFrame' = NextFrame(currentFrame)
    /\ AfterFrame("returned")
    /\ UNCHANGED <<iterations, caller, engine, framebufferResized, signaled,
                   gpuPending, drawable, support, waited, notes,
                   rebuild>>
    /\ UNCHANGED <<inflight, imageAvailable, renderFinished, hazards>>
    /\ UNCHANGED <<failures, events, startup>>

\* ----------------------------------------------------- recreateSwapChain
\* the loop condition of the minimization wait
Minimized(size) == size.width = 0 \/ size.height = 0

\* recreateSwapChain is entered (of the frame's locals only the call site
\* is live from here on)
RcEnter ==
    /\ pc = "rc_stall"
    /\ pc' = "rc_read"
    /\ frame' = [frame EXCEPT !.acquire = "none", !.present = "none",
                              !.imageIndex = 0, !.notes = 0]
    /\ UNCHANGED <<quit, iterations, caller, engine, currentFrame,
                   framebufferResized, signaled, gpuPending, drawable, support, waited, notes, rebuild>>
    /\ UNCHANGED <<inflight, imageAvailable, renderFinished, hazards>>
    /\ UNCHANGED <<failures, events, startup>>

\* recreateSwapChain: SDL_Vulkan_GetDrawableSize, then the first test of the
\* wait loop
RcStall ==
    /\ pc = "rc_read"
    /\ rebuild' = [rebuild EXCEPT !.minimized = Minimized(drawable),
                                  !.stalled = Minimized(drawable)]
    /\ pc' = IF Minimized(drawable) THEN "rc_size" ELSE "rc_idle"
    /\ UNCHANGED <<quit, iterations, caller, engine, currentFrame,
                   framebufferResized, signaled, gpuPending, drawable, support, waited, notes, frame>>
    /\ UNCHANGED <<inflight, imageAvailable, renderFinished, hazards>>
    /\ UNCHANGED <<failures, events, startup>>

\* the body of the wait loop, SDL_Vulkan_GetDrawableSize
RcSize ==
    /\ pc = "rc_size"
    /\ rebuild' = [rebuild EXCEPT !.minimized = Minimized(drawable)]
    /\ pc' = "rc_wait"
    /\ UNCHANGED <<quit, iterations, caller, engine, currentFrame,
                   framebufferResized, signaled, gpuPending, drawable, support, waited, notes, frame>>
    /\ UNCHANGED <<inflight, imageAvailable, renderFinished, hazards>>
    /\ UNCHANGED <<failures, events, startup>>

\* a wait that takes the event it has waited for from the queue
WaitEventRemoves(queued) == FALSE

\* the queue after SDL_WaitEvent(nullptr): with no SDL_Event to fill in,
\* the event waited for stays in the queue
WaitEvent(queued) == queued

\* the body of the wait loop, SDL_WaitEvent(nullptr), which returns once
\* the queue holds an event; then the test of the size read before it
RcWait ==
    /\ pc = "rc_wait"
    /\ events
    /\ events' = WaitEvent(events)
    /\ pc' = IF rebuild.minimized THEN "rc_size" ELSE "rc_idle"
    /\ UNCHANGED <<quit, iterations, caller, engine, currentFrame,
                   framebufferResized, signaled, gpuPending, drawable, support, waited, notes, frame, rebuild>>
    /\ UNCHANGED <<inflight, imageAvailable, renderFinished, hazards>>
    /\ UNCHANGED <<failures, startup>>

\* vkDeviceWaitIdle returns when no submission is pending
DeviceIdle(pending) == \A s \in Slots : ~pending[s]

\* vkDeviceWaitIdle returns VK_SUCCESS once the device is idle.  (A failure
\* that finds the device idle leaves the state a success leaves, and is left
\* out.)
DeviceWaitIdle(result, pending) ==
    IF result = VK_SUCCESS THEN DeviceIdle(pending) ELSE ~DeviceIdle(pending)

\* recreateSwapChain: vkDeviceWaitIdle, whose failure is only logged, then
\* cleanupSwapChain
RcCleanup(result) ==
    /\ pc = "rc_idle"
    /\ DeviceWaitIdle(result, gpuPending)
    /\ engine' = cleanupSwapChain(engine)
    /\ frame' = [frame EXCEPT !.ignored = Ignored(result, "vkDeviceWaitIdle")]
    /\ pc' = "rc_create"
    /\ UNCHANGED <<quit, iterations, caller, currentFrame, framebufferResized,
                   signaled, gpuPending, drawable, support,
                   waited, notes, rebuild>>
    /\ UNCHANGED <<inflight, imageAvailable, renderFinished, hazards>>
    /\ Returned(result)
    /\ UNCHANGED <<events, startup>>

\* a drawFrame that returns normally after the rebuild at the acquire site
ResumeAtAdvance(site) == "df_advance"

\* a drawFrame that goes on with the frame after the rebuild at the acquire
\* site
ResumeAtContinue(site) == IF site = "acquire" THEN "df_reset" ELSE "df_advance"

\* what drawFrame does when recreateSwapChain returns: the acquire site
\* throws SwapChainOutOfDateError, the present site goes on to step 7
ResumeAt(site) == IF site = "acquire" THEN "throw" ELSE "df_advance"

\* recreateSwapChain: the create calls, then the return to the call site
RcCreate(fail) ==
    /\ pc = "rc_create"
    /\ fail \in Failures(support)
    /\ engine' = createSwapChainObjects(engine, support, drawable, fail)
    /\ IF fail # NoFailure
       THEN /\ rebuild' = [rebuild EXCEPT !.clean = FALSE, !.fresh = FALSE,
                              !.before = <<>>, !.old = {}, !.again = FALSE,
                              !.minimized = FALSE, !.stalled = FALSE]
            /\ AfterFrame("fatal")
       ELSE /\ rebuild' = [rebuild EXCEPT
                  !.clean = TRUE, !.fresh = FALSE, !.before = <<>>, !.old = {},
                  !.stalled = FALSE,
                  !.again = rebuild.fresh /\ rebuild.surface = <<support, drawable>>,
                  !.surface = <<support, drawable>>]
            /\ IF ResumeAt(caller) = "throw"
               THEN AfterFrame("ood")
               ELSE /\ pc' = ResumeAt(caller)
                    /\ frame' = [frame EXCEPT !.ignored = "none"]
                    /\ UNCHANGED quit
    /\ UNCHANGED <<iterations, caller, currentFrame, framebufferResized, signaled,
                   gpuPending, drawable, support, waited, notes>>
    /\ UNCHANGED <<inflight, imageAvailable, renderFinished, hazards>>
    /\ Failed(fail # NoFailure)
    /\ UNCHANGED <<events, startup>>

\* ------------------------------------------------------------- shutdown
\* VulkanEngine::~VulkanEngine: vkDeviceWaitIdle, whose failure is only
\* logged, then cleanup
Destructor(result) ==
    /\ pc = "dtor"
    /\ IF engine.device # VK_NULL_HANDLE
       THEN DeviceWaitIdle(result, gpuPending)
       ELSE result = VK_SUCCESS
    /\ engine' = cleanup(engine)
    /\ frame' = [frame EXCEPT !.ignored = Ignored(result, "vkDeviceWaitIdle")]
    /\ pc' = "done"
    /\ UNCHANGED <<quit, iterations, caller, currentFrame, framebufferResized,
                   signaled, gpuPending, drawable, support,
                   waited, notes, rebuild>>
    /\ UNCHANGED <<inflight, imageAvailable, renderFinished, hazards>>
    /\ Returned(result)
    /\ UNCHANGED <<events, startup>>

\* ----------------------------------------------------------- environment
\* The program reads or writes what the GPU and the presentation engine
\* change (a fence, the device's idleness, a slot's uniform buffer) only at
\* these positions, and nothing but a submission waits for an image or a
\* present: a step of theirs taken anywhere else is the same as one taken at
\* the next of these positions, an image released before its submission the
\* same as one released after it, and a present executed while its slot has
\* no submission pending the same as one executed once it has.
Observed == pc \in {"update", "df_wait", "df_reset", "rc_idle", "dtor"}

\* the presentation engine releases the image of frame i of slot s and
\* signals the semaphore the acquire was given
ImageReady(s, i) ==
    /\ Observed
    /\ i \in 1 .. Len(inflight[s])
    /\ inflight[s][i].stage = "submitted"
    /\ ~inflight[s][i].ready
    /\ inflight' = [inflight EXCEPT ![s][i].ready = TRUE]
    /\ imageAvailable' = [imageAvailable EXCEPT ![AcquireSignals(s)] = TRUE]
    /\ UNCHANGED <<pc, quit, iterations, caller, engine, currentFrame,
                   framebufferResized, signaled, gpuPending, drawable, support,
                   frame, waited, notes, rebuild, renderFinished, hazards>>
    /\ UNCHANGED <<failures, events, startup>>

\* frame i of a queue has been rendered
Rendered(frames, i) ==
    IF frames[i].present \in {"failed", "shown"} THEN Remove(frames, i)
    ELSE [frames EXCEPT ![i].stage = "rendered"]

\* the GPU executes slot s's oldest submission: it waits for the submit's
\* wait semaphore, writes the frame's image, and signals the submit's signal
\* semaphore and fence
GpuComplete(s) ==
    /\ Observed
    /\ gpuPending[s]
    /\ imageAvailable[SubmitWaits(s)]
    /\ imageAvailable' = [imageAvailable EXCEPT ![SubmitWaits(s)] = FALSE]
    /\ renderFinished' = [renderFinished EXCEPT ![SubmitSignals(s)] = TRUE]
    /\ inflight' = [inflight EXCEPT
          ![s] = Rendered(@, Oldest(@, "stage", "submitted"))]
    /\ hazards' = IF inflight[s][Oldest(inflight[s], "stage", "submitted")].ready
                  THEN hazards ELSE hazards \cup {"write before image available"}
    /\ gpuPending' = [gpuPending EXCEPT ![s] = Submissions(inflight'[s]) > 0]
    /\ signaled' = [signaled EXCEPT ![s] = TRUE]
    /\ UNCHANGED <<pc, quit, iterations, caller, engine, currentFrame,
                   framebufferResized, drawable, support, frame, waited,
                   notes, rebuild>>
    /\ UNCHANGED <<failures, events, startup>>

\* frame i of a queue has been presented
Shown(frames, i) ==
    IF frames[i].stage = "rendered" THEN Remove(frames, i)
    ELSE [frames EXCEPT ![i].present = "shown"]

\* the presentation engine executes slot s's oldest queued present: it
\* waits for the present's wait semaphore and shows the frame's image
PresentExec(s) ==
    /\ Observed
    /\ gpuPending[s]
    /\ Oldest(inflight[s], "present", "queued") # 0
    /\ renderFinished[PresentWaits(s)]
    /\ renderFinished' = [renderFinished EXCEPT ![PresentWaits(s)] = FALSE]
    /\ inflight' = [inflight EXCEPT
          ![s] = Shown(@, Oldest(@, "present", "queued"))]
    /\ hazards' =
          IF inflight[s][Oldest(inflight[s], "present", "queued")].stage = "rendered"
          THEN hazards ELSE hazards \cup {"present before render finished"}
    /\ UNCHANGED <<pc, quit, iterations, caller, engine, currentFrame,
                   framebufferResized, signaled, gpuPending, drawable, support,
                   frame, waited, notes, rebuild, imageAvailable>>
    /\ UNCHANGED <<failures, events, startup>>

\* the window system changes the drawable size and queues an event; a
\* surface that reports its current extent reports the new size.  Only
\* recreateSwapChain reads the size, and it does so before its wait loop, in
\* the loop and in createSwapChain: a change at any other moment is the same
\* as one before the next of these reads.  polled: the change was made
\* before the event loop of this pass, which has taken its event from the
\* queue.
WindowResize(size, polled) ==
    /\ pc \in {"rc_read", "rc_size", "rc_wait", "rc_create"}
    /\ polled => pc = "rc_read"
    /\ size # drawable
    /\ drawable' = size
    /\ events' = (events \/ ~polled)
    /\ support' = IF support.capabilities.currentExtent.width # UINT32_MAX
                  THEN [support EXCEPT !.capabilities.currentExtent = size]
                  ELSE support
    /\ UNCHANGED <<pc, quit, iterations, caller, engine, currentFrame,
                   framebufferResized, signaled, gpuPending, frame, waited, notes,
                   rebuild>>
    /\ UNCHANGED <<inflight, imageAvailable, renderFinished, hazards>>
    /\ UNCHANGED <<failures, startup>>

Next ==
    \/ \E quitEvent \in BOOLEAN, k \in 0 .. MaxEvents : PollEvents(quitEvent, k)
    \/ UpdateCubeRotation
    \/ \E result \in WaitResults : DfWait(result)
    \/ \E result \in AcquireResults, index \in 0 .. 2 : DfAcquire(result, index)
    \/ \E result \in ResetResults : DfResetFence(result)
    \/ \E reset \in ResetResults, ok \in BOOLEAN : DfRecord(reset, ok)
    \/ \E result \in SubmitResults : DfSubmit(result)
    \/ \E result \in PresentResults : DfPresent(result)
    \/ DfCheckPresent
    \/ DfAdvance
    \/ RcEnter
    \/ RcStall
    \/ RcSize
    \/ RcWait
    \/ \E result \in IdleResults : RcCleanup(result)
    \/ \E s \in 0 .. 8, a \in 0 .. 6 : RcCreate([step |-> s, at |-> a])
    \/ \E result \in IdleResults : Destructor(result)
    \/ \E s \in Slots : GpuComplete(s)
    \/ \E s \in Slots, i \in 1 .. MAX_FRAMES_IN_FLIGHT : ImageReady(s, i)
    \/ \E s \in Slots : PresentExec(s)
    \/ \E size \in DrawableSizes, polled \in BOOLEAN : WindowResize(size, polled)

Spec == Init /\ [][Next]_vars

\* The program is one thread that keeps running (each of its steps changes
\* pc), and the GPU and the presentation engine go on with the work given
\* to them: a submission whose image is available is executed, an acquired
\* image is released, a queued present whose rendering is finished is
\* executed.  Nothing is assumed of the window system.
FairSpec ==
    /\ Init /\ [][Next]_vars
    /\ WF_vars(Next /\ pc' # pc)
    /\ \A s \in Slots :
          /\ WF_vars(GpuComplete(s))
          /\ WF_vars(\E i \in 1 .. MAX_FRAMES_IN_FLIGHT : ImageReady(s, i))
          /\ WF_vars(PresentExec(s))

\* ------------------------------------------------- chooseSwapExtent alone
\* The extent selection applied to every report of a surface up to
\* MaxExtent: currentExtent is undefined or any size (0 x 0 included),
\* minImageExtent <= maxImageExtent component-wise as Vulkan guarantees,
\* maxImageExtent is nonzero, and the drawable has any size up to
\* MaxExtent + 1.
Dims == 0 .. MaxExtent
Extents(ws, hs) == {Extent(w, h) : w \in ws, h \in hs}

ExtentCapabilities ==
    {[currentExtent |-> cur, minImageExtent |-> min, maxImageExtent |-> max,
      minImageCount |-> 2, maxImageCount |-> 0] :
        cur \in Extents(Dims, Dims) \cup {UndefinedExtent},
        min \in Extents(Dims, Dims),
        max \in Extents(1 .. MaxExtent, 1 .. MaxExtent)}

InitExtent ==
    /\ pc = "extent"
    /\ quit = FALSE
    /\ iterations = 0
    /\ caller = "none"
    /\ drawable \in Extents(0 .. (MaxExtent + 1), 0 .. (MaxExtent + 1))
    /\ \E capabilities \in ExtentCapabilities :
          /\ capabilities.minImageExtent.width <= capabilities.maxImageExtent.width
          /\ capabilities.minImageExtent.height <= capabilities.maxImageExtent.height
          /\ support = [capabilities |-> capabilities,
                        formats |-> <<B8G8R8A8_SRGB>>,
                        presentModes |-> <<"VK_PRESENT_MODE_FIFO_KHR">>]
    /\ engine = NullEngine
    /\ currentFrame = 0
    /\ framebufferResized = FALSE
    /\ signaled = createSyncObjects
    /\ gpuPending = [s \in Slots |-> FALSE]
    /\ frame = NoFrame
    /\ waited = [s \in Slots |-> TRUE]
    /\ notes = 0
    /\ rebuild = NoRebuild
    /\ inflight = [s \in Slots |-> <<>>]
    /\ imageAvailable = [s \in Slots |-> FALSE]
    /\ renderFinished = [s \in Slots |-> FALSE]
    /\ hazards = {}
    /\ failures = 0
    /\ events = FALSE
    /\ startup = NoStartup

\* createSwapChain: extent = chooseSwapExtent(swapChainSupport.capabilities)
\* and swapChainExtent = extent
ChooseExtent ==
    /\ pc = "extent"
    /\ engine' = [engine EXCEPT !.swapChainExtent =
                     chooseSwapExtent(support.capabilities, drawable)]
    /\ pc' = "extent_chosen"
    /\ UNCHANGED <<quit, iterations, caller, currentFrame, framebufferResized,
                   signaled, gpuPending, drawable, support, frame, waited,
                   notes, rebuild>>
    /\ UNCHANGED <<inflight, imageAvailable, renderFinished, hazards>>
    /\ UNCHANGED <<failures, events, startup>>

NextExtent == ChooseExtent

SpecExtent == InitExtent /\ [][NextExtent]_vars

\* ---------------------------------------------- initialization: the device
\* createInstance and pickPhysicalDevice applied to every report of up to
\* MaxDevices physical devices with up to MaxFamilies queue families each,
\* in a build with or without validation layers.
VK_KHR_SWAPCHAIN_EXTENSION_NAME == "VK_KHR_swapchain"
\* the required device extensions (of a build that is not for macOS)
deviceExtensions == <<VK_KHR_SWAPCHAIN_EXTENSION_NAME>>
validationLayers == <<"VK_LAYER_KHRONOS_validation">>

\* std::optional<uint32_t>: the set of the value, empty without a value
nullopt == {}

\* QueueFamilyIndices::isComplete
isComplete(indices) ==
    indices.graphicsFamily # nullopt /\ indices.presentFamily # nullopt

\* the loop of findQueueFamilies from family i on (i counts from 0)
RECURSIVE findQueueFamiliesFrom(_, _, _)
findQueueFamiliesFrom(queueFamilies, i, indices) ==
    IF i >= Len(queueFamilies) THEN indices
    ELSE LET family == queueFamilies[i + 1]
             found == [indices EXCEPT
                          !.graphicsFamily = IF family.graphics THEN {i} ELSE @,
                          !.presentFamily = IF family.present THEN {i} ELSE @]
         IN  IF isComplete(found) THEN found
             ELSE findQueueFamiliesFrom(queueFamilies, i + 1, found)

\* VulkanEngine::findQueueFamilies
findQueueFamilies(queryDevice) ==
    findQueueFamiliesFrom(queryDevice.queueFamilies, 0,
                          [graphicsFamily |-> nullopt, presentFamily |-> nullopt])

\* VulkanEngine::checkDeviceExtensionSupport: every extension the device
\* reports is erased from the required set, which must end empty
checkDeviceExtensionSupport(queryDevice) ==
    Range(deviceExtensions) \ queryDevice.extensions = {}

\* a suitability test that leaves out the swapchain support
isDeviceSuitableWithoutSwapChain(queryDevice) ==
    IF ~isComplete(findQueueFamilies(queryDevice)) THEN FALSE
    ELSE checkDeviceExtensionSupport(queryDevice)

\* VulkanEngine::isDeviceSuitable
isDeviceSuitable(queryDevice) ==
    IF ~isComplete(findQueueFamilies(queryDevice)) THEN FALSE
    ELSE IF ~checkDeviceExtensionSupport(queryDevice) THEN FALSE
    ELSE queryDevice.formats # <<>> /\ queryDevice.presentModes # <<>>

\* what a throw statement of the initialization throws
NoError == [type |-> "none", what |-> ""]
RuntimeError(what) == [type |-> "std::runtime_error", what |-> what]

\* the loop of pickPhysicalDevice from device k on: the device selected
\* (a physical device is named by its place in the enumeration), or
\* VK_NULL_HANDLE
RECURSIVE pickFrom(_, _)
pickFrom(devices, k) ==
    IF k > Len(devices) THEN VK_NULL_HANDLE
    ELSE IF isDeviceSuitable(devices[k]) THEN k
    ELSE pickFrom(devices, k + 1)

\* VulkanEngine::pickPhysicalDevice: physicalDevice, and the exception thrown
pickPhysicalDevice(devices) ==
    IF Len(devices) = 0
    THEN [physicalDevice |-> VK_NULL_HANDLE,
          error |-> RuntimeError("Failed to find GPUs with Vulkan support!")]
    ELSE IF pickFrom(devices, 1) = VK_NULL_HANDLE
    THEN [physicalDevice |-> VK_NULL_HANDLE,
          error |-> RuntimeError("Failed to find a suitable GPU!")]
    ELSE [physicalDevice |-> pickFrom(devices, 1), error |-> NoError]

\* VulkanEngine::checkValidationLayerSupport
checkValidationLayerSupport(availableLayers) ==
    \A i \in 1 .. Len(validationLayers) : validationLayers[i] \in availableLayers

\* VulkanEngine::createInstance, the test of the validation layers
createInstance(enableValidationLayers, availableLayers) ==
    IF enableValidationLayers /\ ~checkValidationLayerSupport(availableLayers)
    THEN RuntimeError("Validation layers requested, but not available!")
    ELSE NoError

\* the reports of the physical devices
QueueFamilies ==
    UNION {[1 .. n -> [graphics : BOOLEAN, present : BOOLEAN]] : n \in 0 .. MaxFamilies}
PhysicalDevices ==
    [queueFamilies : QueueFamilies,
     extensions : SUBSET {VK_KHR_SWAPCHAIN_EXTENSION_NAME},
     formats : {<<>>, <<B8G8R8A8_SRGB>>},
     presentModes : {<<>>, <<"VK_PRESENT_MODE_FIFO_KHR">>}]
DeviceLists == UNION {[1 .. n -> PhysicalDevices] : n \in 0 .. MaxDevices}

InitDevice ==
    /\ pc = "createInstance"
    /\ startup \in [enableValidationLayers : BOOLEAN,
                    availableLayers : SUBSET Range(validationLayers),
                    devices : DeviceLists,
                    physicalDevice : {VK_NULL_HANDLE},
                    step : {"none"},
                    error : {NoError}]
    /\ quit = FALSE
    /\ iterations = 0
    /\ caller = "none"
    /\ drawable = Extent(2, 2)
    /\ support = <<>>
    /\ engine = NullEngine
    /\ currentFrame = 0
    /\ framebufferResized = FALSE
    /\ signaled = createSyncObjects
    /\ gpuPending = [s \in Slots |-> FALSE]
    /\ frame = NoFrame
    /\ waited = [s \in Slots |-> TRUE]
    /\ notes = 0
    /\ rebuild = NoRebuild
    /\ inflight = [s \in Slots |-> <<>>]
    /\ imageAvailable = [s \in Slots |-> FALSE]
    /\ renderFinished = [s \in Slots |-> FALSE]
    /\ hazards = {}
    /\ failures = 0
    /\ events = FALSE

\* initVulkan: createInstance; an exception ends the initialization
CreateInstance ==
    /\ pc = "createInstance"
    /\ startup' = [startup EXCEPT
          !.step = "createInstance",
          !.error = createInstance(startup.enableValidationLayers,
                                   startup.availableLayers)]
    /\ pc' = IF startup'.error = NoError THEN "pickPhysicalDevice" ELSE "failed"
    /\ UNCHANGED <<quit, iterations, caller, engine, currentFrame,
                   framebufferResized, signaled, gpuPending, drawable, support,
                   frame, waited, notes, rebuild, inflight, imageAvailable,
                   renderFinished, hazards, failures, events>>

\* initVulkan: pickPhysicalDevice; an exception ends the initialization
PickPhysicalDevice ==
    /\ pc = "pickPhysicalDevice"
    /\ startup' = [startup EXCEPT
          !.step = "pickPhysicalDevice",
          !.physicalDevice = pickPhysicalDevice(startup.devices).physicalDevice,
          !.error = pickPhysicalDevice(startup.devices).error]
    /\ pc' = IF startup'.error = NoError THEN "createLogicalDevice" ELSE "failed"
    /\ UNCHANGED <<quit, iterations, caller, engine, currentFrame,
                   framebufferResized, signaled, gpuPending, drawable, support,
                   frame, waited, notes, rebuild, inflight, imageAvailable,
                   renderFinished, hazards, failures, events>>

NextDevice == CreateInstance \/ PickPhysicalDevice

SpecDevice == InitDevice /\ [][NextDevice]_vars

\* ------------------------------------- the configuration of the swapchain
\* The selections at the start of createSwapChain applied to every report
\* of a surface with 1 .. MaxFormats formats, up to MaxModes present modes,
\* minImageCount in 1 .. MaxCount and maxImageCount in 0 .. MaxCount + 1.
SurfaceFormats ==
    {B8G8R8A8_SRGB, R8G8B8A8_UNORM,
     [format |-> "VK_FORMAT_B8G8R8A8_SRGB",
      colorSpace |-> "VK_COLOR_SPACE_DISPLAY_P3_NONLINEAR_EXT"],
     [format |-> "VK_FORMAT_B8G8R8A8_UNORM",
      colorSpace |-> "VK_COLOR_SPACE_SRGB_NONLINEAR_KHR"]}
PresentModes ==
    {"VK_PRESENT_MODE_FIFO_KHR", "VK_PRESENT_MODE_MAILBOX_KHR",
     "VK_PRESENT_MODE_IMMEDIATE_KHR"}

InitSurface ==
    /\ pc = "createSwapChain"
    /\ support \in
          [capabilities : [currentExtent : {UndefinedExtent},
                           minImageExtent : {Extent(1, 1)},
                           maxImageExtent : {Extent(4, 4)},
                           minImageCount : 1 .. MaxCount,
                           maxImageCount : 0 .. (MaxCount + 1)],
           formats : UNION {[1 .. n -> SurfaceFormats] : n \in 1 .. MaxFormats},
           presentModes : UNION {[1 .. n -> PresentModes] : n \in 0 .. MaxModes}]
    /\ startup = [surfaceFormat |-> <<>>, presentMode |-> "", imageCount |-> 0]
    /\ quit = FALSE
    /\ iterations = 0
    /\ caller = "none"
    /\ drawable = Extent(2, 2)
    /\ engine = NullEngine
    /\ currentFrame = 0
    /\ framebufferResized = FALSE
    /\ signaled = createSyncObjects
    /\ gpuPending = [s \in Slots |-> FALSE]
    /\ frame = NoFrame
    /\ waited = [s \in Slots |-> TRUE]
    /\ notes = 0
    /\ rebuild = NoRebuild
    /\ inflight = [s \in Slots |-> <<>>]
    /\ imageAvailable = [s \in Slots |-> FALSE]
    /\ renderFinished = [s \in Slots |-> FALSE]
    /\ hazards = {}
    /\ failures = 0
    /\ events = FALSE

\* createSwapChain: surfaceFormat, presentMode and imageCount
ChooseSurface ==
    /\ pc = "createSwapChain"
    /\ startup' = [surfaceFormat |-> chooseSwapSurfaceFormat(support.formats),
                   presentMode |-> chooseSwapPresentMode(support.presentModes),
                   imageCount |-> chooseImageCount(support.capabilities)]
    /\ pc' = "vkCreateSwapchainKHR"
    /\ UNCHANGED <<quit, iterations, caller, engine, currentFrame,
                   framebufferResized, signaled, gpuPending, drawable, support,
                   frame, waited, notes, rebuild, inflight, imageAvailable,
                   renderFinished, hazards, failures, events>>

NextSurface == ChooseSurface

SpecSurface == InitSurface /\ [][NextSurface]_vars

\* --------------------------------------------------------- construction
\* the calls of a step of initVulkan that can fail
FailPoints(step, E) ==
    CASE step \in {2} -> {}
      [] step = 7 -> 1 .. Len(E.swapChainImages)
      [] step = 11 -> 1 .. Len(E.swapChainImageViews)
      [] step = 10 -> 1 .. 4
      [] step = 13 -> 1 .. 8
      [] step = 14 -> (1 .. 8) \ {4}
      [] step \in {15, 19} -> 1 .. (3 * MAX_FRAMES_IN_FLIGHT)
      [] OTHER -> {1}

\* VulkanEngine::VulkanEngine before the call of initVulkan; startup keeps
\*   debug     setupDebugMessenger creates a messenger
\*   step      the last call of initVulkan made
\*   created   per call made, the handles its Vulkan calls have created
\*   thrown    the exception initVulkan has ended with, and the objects
\*             alive when it was thrown
\*   rethrown  the exception the constructor has ended with
InitConstruct ==
    /\ pc = "initVulkan"
    /\ engine = NullEngine
    /\ drawable = Extent(2, 2)
    /\ \E kind \in SurfaceKinds : support = SwapChainSupport(kind, drawable)
    /\ \E debug \in BOOLEAN :
          startup = [debug |-> debug, step |-> 0, created |-> <<>>,
                     thrown |-> NoError, alive |-> {}, rethrown |-> NoError]
    /\ quit = FALSE
    /\ iterations = 0
    /\ caller = "none"
    /\ currentFrame = 0
    /\ framebufferResized = FALSE
    /\ signaled = createSyncObjects
    /\ gpuPending = [s \in Slots |-> FALSE]
    /\ frame = NoFrame
    /\ waited = [s \in Slots |-> TRUE]
    /\ notes = 0
    /\ rebuild = NoRebuild
    /\ inflight = [s \in Slots |-> <<>>]
    /\ imageAvailable = [s \in Slots |-> FALSE]
    /\ renderFinished = [s \in Slots |-> FALSE]
    /\ hazards = {}
    /\ failures = 0
    /\ events = FALSE

\* initVulkan: its next call, which returns or throws
InitStep(failAt) ==
    /\ pc = "initVulkan"
    /\ failAt \in {0} \cup FailPoints(startup.step + 1, engine)
    /\ engine' = initStep(startup.step + 1, engine, support, drawable,
                          startup.debug, failAt)
    /\ startup' = [startup EXCEPT
          !.step = @ + 1,
          !.created = Append(@, engine.nextHandle .. (engine'.nextHandle - 1)),
          !.thrown = IF failAt = 0 THEN NoError
                     ELSE RuntimeError(InitSteps[startup.step + 1]),
          !.alive = IF failAt = 0 THEN {} ELSE engine'.live]
    /\ pc' = IF failAt # 0 THEN "catch"
             ELSE IF startup.step + 1 = Len(InitSteps) THEN "constructed"
             ELSE "initVulkan"
    /\ UNCHANGED <<quit, iterations, caller, currentFrame, framebufferResized,
                   signaled, gpuPending, drawable, support, frame, waited,
                   notes, rebuild, inflight, imageAvailable, renderFinished,
                   hazards, failures, events>>

\* VulkanEngine::VulkanEngine, the catch block: cleanup, then throw;
ConstructorCatch ==
    /\ pc = "catch"
    /\ engine' = cleanup(engine)
    /\ startup' = [startup EXCEPT !.rethrown = startup.thrown]
    /\ pc' = "rethrown"
    /\ UNCHANGED <<quit, iterations, caller, currentFrame, framebufferResized,
                   signaled, gpuPending, drawable, support, frame, waited,
                   notes, rebuild, inflight, imageAvailable, renderFinished,
                   hazards, failures, events>>

NextInit ==
    \/ \E failAt \in {0} \cup UNION {FailPoints(k, engine) : k \in 1 .. Len(InitSteps)} :
          InitStep(failAt)
    \/ ConstructorCatch

SpecInit == InitConstruct /\ [][NextInit]_vars

\* -------------------------------------------------------------- terrain
\* A float is kept as the integers it is computed from: a height is the
\* pixel value (to be divided by 255 and scaled by scaleY), a position the
\* grid coordinates (to be scaled by scaleXY), a texture coordinate the
\* pair of its numerator and denominator, and a normal the four heights it
\* is computed from.

\* a sampling that wraps around the grid
getHeightWraps(x, z, width, height, heightmapData, channels) ==
    heightmapData[((z % height) * width + (x % width)) * channels]

\* TerrainLoader::getHeight: the first channel of the pixel at the clamped
\* coordinates
getHeight(x, z, width, height, heightmapData, channels) ==
    LET cx == IF (IF x < width - 1 THEN x ELSE width - 1) > 0
              THEN (IF x < width - 1 THEN x ELSE width - 1) ELSE 0
        cz == IF (IF z < height - 1 THEN z ELSE height - 1) > 0
              THEN (IF z < height - 1 THEN z ELSE height - 1) ELSE 0
    IN  heightmapData[(cz * width + cx) * channels]

\* TerrainLoader::calculateNormal: the heights of the four neighbours
calculateNormal(x, z, width, height, heightmapData, channels) ==
    [hl |-> getHeight(x - 1, z, width, height, heightmapData, channels),
     hr |-> getHeight(x + 1, z, width, height, heightmapData, channels),
     hd |-> getHeight(x, z - 1, width, height, heightmapData, channels),
     hu |-> getHeight(x, z + 1, width, height, heightmapData, channels)]

\* LoadFromHeightmap, the vertex of the body of the first pair of loops
TerrainVertex(x, z, image) ==
    [pos |-> <<x, getHeight(x, z, image.width, image.height, image.pixels,
                            image.channels), z>>,
     normal |-> calculateNormal(x, z, image.width, image.height, image.pixels,
                                image.channels),
     texCoord |-> <<<<x, image.width - 1>>, <<z, image.height - 1>>>>]

\* LoadFromHeightmap, the first pair of loops from (z, x) on
RECURSIVE GenerateVertices(_, _, _, _)
GenerateVertices(z, x, image, outVertices) ==
    IF z >= image.height THEN outVertices
    ELSE IF x >= image.width THEN GenerateVertices(z + 1, 0, image, outVertices)
    ELSE GenerateVertices(z, x + 1, image,
                          Append(outVertices, TerrainVertex(x, z, image)))

\* LoadFromHeightmap, the six indices of the quad at (z, x); the products
\* are computed in int and stored in uint32_t, and no grid of at most
\* MaxGrid * MaxGrid pixels comes near either width
QuadIndices(x, z, width) ==
    LET topLeft == z * width + x
        topRight == topLeft + 1
        bottomLeft == (z + 1) * width + x
        bottomRight == bottomLeft + 1
    IN  <<topLeft, bottomLeft, topRight, topRight, bottomLeft, bottomRight>>

\* LoadFromHeightmap, the second pair of loops from (z, x) on
RECURSIVE GenerateIndices(_, _, _, _)
GenerateIndices(z, x, image, outIndices) ==
    IF z >= image.height - 1 THEN outIndices
    ELSE IF x >= image.width - 1 THEN GenerateIndices(z + 1, 0, image, outIndices)
    ELSE GenerateIndices(z, x + 1, image,
                         outIndices \o QuadIndices(x, z, image.width))

\* stbi_load: the pixels of an image of the given size, following a pattern
Pixels(width, height, channels, pattern) ==
    [i \in 0 .. (width * height * channels - 1) |-> ((i + 1) * pattern) % 256]

PixelPatterns == {1, 37, 255}

\* the images stbi_load returns; loaded is FALSE when it returns a null pointer
Images ==
    {[loaded |-> loaded, width |-> w, height |-> h, channels |-> c,
      pixels |-> Pixels(w, h, c, p)] :
        loaded \in BOOLEAN, w \in 1 .. MaxGrid, h \in 1 .. MaxGrid,
        c \in 1 .. 4, p \in PixelPatterns}

\* before a call of LoadFromHeightmap: support is the image at
\* heightmapPath, startup the output vectors and the result
InitTerrain ==
    /\ pc = "LoadFromHeightmap"
    /\ support \in Images
    /\ \E stale \in {<<>>, <<0, 0, 0>>} :
          startup = [result |-> FALSE, outVertices |-> <<>>, outIndices |-> stale]
    /\ engine = NullEngine
    /\ drawable = Extent(2, 2)
    /\ quit = FALSE
    /\ iterations = 0
    /\ caller = "none"
    /\ currentFrame = 0
    /\ framebufferResized = FALSE
    /\ signaled = createSyncObjects
    /\ gpuPending = [s \in Slots |-> FALSE]
    /\ frame = NoFrame
    /\ waited = [s \in Slots |-> TRUE]
    /\ notes = 0
    /\ rebuild = NoRebuild
    /\ inflight = [s \in Slots |-> <<>>]
    /\ imageAvailable = [s \in Slots |-> FALSE]
    /\ renderFinished = [s \in Slots |-> FALSE]
    /\ hazards = {}
    /\ failures = 0
    /\ events = FALSE

\* TerrainLoader::LoadFromHeightmap
LoadFromHeightmap ==
    /\ pc = "LoadFromHeightmap"
    /\ startup' = IF ~support.loaded THEN startup
                  ELSE [result |-> TRUE,
                        outVertices |-> GenerateVertices(0, 0, support, <<>>),
                        outIndices |-> GenerateIndices(0, 0, support, <<>>)]
    /\ pc' = "returned"
    /\ UNCHANGED <<quit, iterations, caller, engine, currentFrame,
                   framebufferResized, signaled, gpuPending, drawable, support,
                   frame, waited, notes, rebuild, inflight, imageAvailable,
                   renderFinished, hazards, failures, events>>

NextTerrain == LoadFromHeightmap

SpecTerrain == InitTerrain /\ [][NextTerrain]_vars

\* =================================================================== claims
\* a step that ends a drawFrame call, and how the call ended
Returns == frame.outcome = "running" /\ frame'.outcome = "returned"
Raises == frame.outcome = "running" /\ frame'.outcome \in {"ood", "fatal"}

\* the program makes the step that stands at label
Leaves(label) == pc = label /\ pc' # label

\* ---------------------------------------------------------------------- C1
\* C1 as stated: the frame cursor is always in [0, MAX_FRAMES_IN_FLIGHT);
\* every drawFrame call whose queue submit succeeded advances it by exactly
\* one modulo MAX_FRAMES_IN_FLIGHT, and no other operation changes it.
C1_SubmittedFrameAdvances ==
    [][ /\ currentFrame' \in Slots
        /\ (frame.submitted /\ (Returns \/ Raises))
              => currentFrame' = NextFrame(frame.slot)
        /\ currentFrame' # currentFrame => pc = "df_advance" ]_vars

\* C1, amended: the frame cursor is always in [0, MAX_FRAMES_IN_FLIGHT); a
\* drawFrame call that returns normally has submitted its frame and leaves
\* the cursor one past its slot, modulo MAX_FRAMES_IN_FLIGHT; a call that
\* raises, before or after its submit, leaves the cursor where it was; and
\* only the last step of drawFrame changes the cursor.
C1_ReturnedFrameAdvances ==
    /\ [](currentFrame \in Slots)
    /\ [](frame.outcome = "running" => currentFrame = frame.slot)
    /\ [][ /\ Returns => /\ frame.submitted
                          /\ currentFrame = frame.slot
                          /\ currentFrame' = (frame.slot + 1) % MAX_FRAMES_IN_FLIGHT
           /\ Raises => currentFrame' = frame.slot
           /\ currentFrame' # currentFrame => pc = "df_advance" /\ Returns ]_vars

\* a frame on slot 1 has returned and the cursor has wrapped to slot 0
C1_Witness ==
    frame.outcome = "returned" /\ frame.slot = 1 /\ currentFrame = 0

\* ---------------------------------------------------------------------- C2
\* C2: a drawFrame call whose acquire reported VK_ERROR_OUT_OF_DATE_KHR
\* leaves the frame cursor unchanged, and the next drawFrame call uses the
\* same slot again.
C2_AbortKeepsSlot ==
    /\ frame.aborted => currentFrame = frame.slot
    /\ (frame.outcome = "running" /\ frame.prevAborted)
          => frame.slot = frame.prevSlot

\* a frame on slot 1 that follows a frame on slot 1 aborted at its acquire
C2_Witness ==
    /\ frame.outcome = "running" /\ frame.prevAborted
    /\ frame.prevOutcome = "ood" /\ frame.slot = 1

\* ---------------------------------------------------------------------- C3
\* C3: whenever drawFrame resets and re-records slot s's command buffer, the
\* GPU has completed every earlier submission of that command buffer: the
\* slot's fence was observed signaled after the slot's last submit.
C3_RecordAfterFence ==
    pc \in {"df_reset", "df_record", "df_submit"}
        => ~gpuPending[currentFrame] /\ waited[currentFrame]

\* ---------------------------------------------------------------------- C4
\* C4: each time updateCubeRotation writes the active slot's mapped uniform
\* buffer, in the order the main loop calls it (before drawFrame), the GPU
\* has finished every submission that reads that slot's uniform buffer.
C4_WriteAfterGpuDone ==
    [][ (pc = "update" /\ pc' = "df_wait"
            /\ WritesUniformBuffer(engine, currentFrame))
          => ~gpuPending[currentFrame] ]_vars

\* ---------------------------------------------------------------------- C5
\* C5: the active slot's fence is reset only after the acquire has returned
\* VK_SUCCESS or VK_SUBOPTIMAL_KHR; when the acquire reports
\* VK_ERROR_OUT_OF_DATE_KHR or a fatal result the fence is left signaled, so
\* the next drawFrame call on that slot does not block on its fence wait.
C5_FenceResetAfterAcquire ==
    /\ [](frame.aborted => signaled[frame.slot])
    /\ []((pc = "df_wait" /\ frame.aborted) => signaled[currentFrame])
    /\ [][ /\ \A s \in Slots : (signaled[s] /\ ~signaled'[s])
                 => /\ s = currentFrame
                    /\ pc = "df_reset"
                    /\ frame.acquire \in {VK_SUCCESS, VK_SUBOPTIMAL_KHR}
           /\ (Leaves("df_acquire") /\ pc' # "df_reset")
                 => signaled'[currentFrame] ]_vars

\* ---------------------------------------------------------------------- C6
\* the steps of a frame that an aborted frame must not have made
NothingDrawn ==
    ~frame.fenceReset /\ ~frame.recorded /\ ~frame.submitted /\ ~frame.presented

\* C6 as stated: when the acquire reports VK_ERROR_OUT_OF_DATE_KHR, drawFrame
\* rebuilds the swapchain, reports SwapChainOutOfDateError to the caller, and
\* performs no fence reset, recording, submit or present for that frame.
C6_AbortReportsOutOfDate ==
    /\ []((frame.aborted /\ frame.outcome = "running") => NothingDrawn)
    /\ [][ (frame.aborted /\ (Returns \/ Raises))
              => frame'.outcome = "ood" /\ rebuild'.clean ]_vars

\* C6, amended: when the acquire reports VK_ERROR_OUT_OF_DATE_KHR, drawFrame
\* calls recreateSwapChain once and performs no fence reset, recording,
\* submit or present for that frame; it reports SwapChainOutOfDateError when
\* the rebuild completes, and the rebuild's own error (fatal) when one of
\* its create calls fails.  SwapChainOutOfDateError is raised in no other
\* case.
C6_AbortReportsOutOfDateOrFails ==
    /\ []((frame.aborted /\ frame.outcome = "running")
            => /\ NothingDrawn
               /\ frame.rebuilds = 1 /\ caller = "acquire"
               /\ pc \in {"rc_stall", "rc_read", "rc_size", "rc_wait",
                          "rc_idle", "rc_create"})
    /\ [][ /\ (frame.aborted /\ (Returns \/ Raises))
                => /\ pc = "rc_create"
                   /\ frame'.outcome = IF rebuild'.clean THEN "ood" ELSE "fatal"
           /\ (frame.outcome = "running" /\ frame'.outcome = "ood")
                => frame.aborted ]_vars

\* a frame aborted at its acquire has rebuilt the swapchain and raised
\* SwapChainOutOfDateError
C6_Witness ==
    /\ frame.outcome = "ood" /\ frame.aborted
    /\ rebuild.clean /\ engine.swapChain \in engine.live

\* ---------------------------------------------------------------------- C7
\* C7 as stated: a frame whose acquire returns VK_SUBOPTIMAL_KHR is not
\* aborted, and a rebuild is performed after its presentation whatever
\* result the present returns.
C7_SuboptimalAcquireRebuilds ==
    [][ /\ (Leaves("df_acquire") /\ frame'.acquire = VK_SUBOPTIMAL_KHR)
              => pc' = "df_reset"
        /\ (Leaves("df_check") /\ frame.acquire = VK_SUBOPTIMAL_KHR)
              => pc' = "rc_stall" ]_vars

\* C7, amended: a frame whose acquire returns VK_SUBOPTIMAL_KHR is not
\* aborted at the acquire: drawFrame goes on to the fence reset as after
\* VK_SUCCESS, without a rebuild.  The acquire's result is not remembered:
\* a rebuild follows that frame's presentation exactly if the present
\* reports VK_ERROR_OUT_OF_DATE_KHR or VK_SUBOPTIMAL_KHR or a resize
\* notification is pending.
C7_SuboptimalAcquireProceeds ==
    [][ /\ (Leaves("df_acquire") /\ frame'.acquire = VK_SUBOPTIMAL_KHR)
              => /\ pc' = "df_reset"
                 /\ ~frame'.aborted /\ frame'.rebuilds = 0
                 /\ rebuild' = rebuild
        /\ (Leaves("df_check") /\ frame.acquire = VK_SUBOPTIMAL_KHR)
              => (pc' = "rc_stall"
                    <=> \/ frame.present = VK_ERROR_OUT_OF_DATE_KHR
                        \/ frame.present = VK_SUBOPTIMAL_KHR
                        \/ framebufferResized) ]_vars

\* a frame whose acquire returned VK_SUBOPTIMAL_KHR has been presented and
\* is about to return without a rebuild
C7_Witness ==
    /\ pc = "df_advance" /\ frame.acquire = VK_SUBOPTIMAL_KHR
    /\ frame.presented /\ frame.rebuilds = 0

\* ---------------------------------------------------------------------- C8
\* C8: for every frame that reaches the present step, recreateSwapChain is
\* called at that step exactly if the present reports
\* VK_ERROR_OUT_OF_DATE_KHR or VK_SUBOPTIMAL_KHR or a resize notification is
\* pending; a present that reports VK_SUCCESS with no notification pending
\* leaves the swapchain alone.
C8_RebuildAtPresent ==
    [][ Leaves("df_check")
          => /\ pc' = "rc_stall"
                   <=> \/ frame.present = VK_ERROR_OUT_OF_DATE_KHR
                       \/ frame.present = VK_SUBOPTIMAL_KHR
                       \/ framebufferResized
             /\ pc' = "rc_stall"
                   => caller' = "present" /\ frame'.rebuilds = frame.rebuilds + 1
             /\ (frame.present = VK_SUCCESS /\ ~framebufferResized)
                   => /\ pc' = "df_advance"
                      /\ frame'.rebuilds = frame.rebuilds
                      /\ engine' = engine /\ rebuild' = rebuild ]_vars

\* a present that reported VK_SUBOPTIMAL_KHR with no notification pending
\* has started a rebuild
C8_Witness ==
    /\ pc = "rc_stall" /\ caller = "present"
    /\ frame.present = VK_SUBOPTIMAL_KHR /\ frame.notes = 0

\* ---------------------------------------------------------------------- C9
\* C9: resize notifications are coalesced.  Any number k >= 1 of
\* notifyFramebufferResized calls made before the next present check cause
\* exactly one rebuild at that check and leave the flag false; a later frame
\* with no new notification is not rebuilt because of them; and the flag is
\* cleared only by the check that starts the rebuild, so no notification is
\* lost before it has caused one.
C9_ResizeCoalesced ==
    /\ [](framebufferResized <=> notes > 0)
    /\ [][ /\ (Leaves("df_check") /\ notes >= 1)
                => /\ pc' = "rc_stall" /\ caller' = "present"
                   /\ frame'.rebuilds = 1 /\ frame'.notes = notes
                   /\ ~framebufferResized' /\ notes' = 0
           /\ (Leaves("df_check") /\ notes = 0 /\ frame.present = VK_SUCCESS)
                => pc' = "df_advance" /\ frame'.rebuilds = 0
           /\ (framebufferResized /\ ~framebufferResized')
                => Leaves("df_check") /\ pc' = "rc_stall" ]_vars

\* two notifications were pending at a present check that reported
\* VK_SUCCESS: one rebuild has started and the flag is false
C9_Witness ==
    /\ pc = "rc_stall" /\ caller = "present"
    /\ frame.notes = 2 /\ frame.present = VK_SUCCESS
    /\ frame.rebuilds = 1 /\ ~framebufferResized

\* --------------------------------------------------------------------- C10
\* a Shape of a complete swapchain state: MAX_FRAMES_IN_FLIGHT live, mapped
\* uniform buffers and descriptor sets, one live view and framebuffer per
\* image, and live swapchain, render pass, pipeline layout and pipeline
Valid(shape) ==
    /\ shape.uniformBuffers = MAX_FRAMES_IN_FLIGHT
    /\ shape.mapped = MAX_FRAMES_IN_FLIGHT
    /\ shape.descriptorSets = MAX_FRAMES_IN_FLIGHT
    /\ shape.images >= 1
    /\ shape.views = shape.images /\ shape.framebuffers = shape.images
    /\ shape.swapChain /\ shape.renderPass
    /\ shape.pipelineLayout /\ shape.graphicsPipeline

\* C10: the rebuild is idempotent.  A recreateSwapChain call that follows a
\* completed one with no frame submitted in between and the surface
\* unchanged leaves the state the first one left: the same extent, format
\* and image, view and framebuffer counts, MAX_FRAMES_IN_FLIGHT live uniform
\* buffers and descriptor sets, the same cursor and flag; and every object
\* the first call created has been destroyed, exactly once.
C10_RebuildIdempotent ==
    [][ (Leaves("rc_create") /\ rebuild'.again)
          => /\ Shape(engine', currentFrame', framebufferResized') = rebuild.before
             /\ Valid(rebuild.before)
             /\ rebuild.old # {}
             /\ rebuild.old \cap engine'.live = {}
             /\ ~engine'.doubleDestroy ]_vars

\* a second rebuild in succession has completed on an unchanged surface
C10_Witness ==
    /\ rebuild.again /\ rebuild.clean
    /\ frame.outcome = "ood" /\ pc = "poll"


\* --------------------------------------------------------------------- C11
\* C11: in every reachable state in which a swapchain exists, after the
\* initial build and after every rebuild, the stored swapchain extent has
\* nonzero width and nonzero height, whatever drawable sizes and surface
\* capabilities are reported, a minimized window included.
C11_ExtentNeverZero ==
    engine.swapChain \in engine.live
        => engine.swapChainExtent.width > 0 /\ engine.swapChainExtent.height > 0


\* --------------------------------------------------------------------- C12
\* v clamped into [lo, hi], spelled out
InRange(v, lo, hi, r) ==
    /\ lo <= r /\ r <= hi
    /\ (v < lo => r = lo) /\ (v > hi => r = hi)
    /\ (lo <= v /\ v <= hi) => r = v

\* C12: chooseSwapExtent returns the surface's current extent when it is
\* defined (its width is not the sentinel 2^32-1); otherwise, for every
\* drawable size with width, height > 0, it returns the size clamped
\* component-wise into [minImageExtent, maxImageExtent], and the result is
\* never (0,0).
C12_ExtentCurrentOrClamped ==
    pc = "extent_chosen" =>
        LET c == support.capabilities
            r == engine.swapChainExtent
        IN  IF c.currentExtent.width # UINT32_MAX
            THEN r = c.currentExtent
            ELSE (drawable.width > 0 /\ drawable.height > 0)
                    => /\ InRange(drawable.width, c.minImageExtent.width,
                                  c.maxImageExtent.width, r.width)
                       /\ InRange(drawable.height, c.minImageExtent.height,
                                  c.maxImageExtent.height, r.height)
                       /\ r # Extent(0, 0)

\* an undefined current extent and a drawable wider than maxImageExtent and
\* lower than minImageExtent: the extent chosen is neither the drawable's
\* nor (0,0)
C12_Witness ==
    /\ pc = "extent_chosen"
    /\ support.capabilities.currentExtent = UndefinedExtent
    /\ drawable.width > support.capabilities.maxImageExtent.width
    /\ drawable.height > 0
    /\ drawable.height < support.capabilities.minImageExtent.height
    /\ engine.swapChainExtent.width = support.capabilities.maxImageExtent.width
    /\ engine.swapChainExtent.height = support.capabilities.minImageExtent.height


\* --------------------------------------------------------------------- C13
\* C13: at most MAX_FRAMES_IN_FLIGHT frames are in flight at any time: the
\* number of slots whose submitted GPU work is not complete never exceeds
\* MAX_FRAMES_IN_FLIGHT, and no slot ever has more than one submission in
\* flight.
C13_FramesInFlight ==
    /\ Cardinality({s \in Slots : gpuPending[s]}) <= MAX_FRAMES_IN_FLIGHT
    /\ \A s \in Slots : Submissions(inflight[s]) <= 1

\* --------------------------------------------------------------------- C14
\* C14: GPU-side ordering within a frame.  The slot's rendering does not
\* write the acquired image before the slot's image-available semaphore has
\* been signaled for that image, and the present of the image does not
\* happen before the slot's render-finished semaphore has been signaled by
\* that same frame's submission.
C14_GpuOrdering == hazards = {}

\* --------------------------------------------------------------------- C15
\* a step of recreateSwapChain destroys an object
RebuildDestroys ==
    /\ pc \in {"rc_read", "rc_size", "rc_wait", "rc_idle", "rc_create"}
    /\ engine.live \ engine'.live # {}

\* C15: no framebuffer, pipeline, pipeline layout, render pass, image view,
\* swapchain, uniform buffer or descriptor pool is destroyed by a rebuild
\* while a slot still has GPU work in flight: every destruction in
\* recreateSwapChain is made with the whole device idle.
C15_RebuildDestroysWhenIdle ==
    [][ RebuildDestroys => \A s \in Slots : ~gpuPending[s] ]_vars

\* --------------------------------------------------------------------- C16
\* the place of a member in the teardown order
TeardownRank(field) ==
    CASE field = "swapChainFramebuffers" -> 1
      [] field \in {"graphicsPipeline", "pipelineLayout", "renderPass"} -> 2
      [] field = "swapChainImageViews" -> 3
      [] field = "swapChain" -> 4
      [] field = "uniformBuffers" -> 5
      [] field = "descriptorPool" -> 6
      [] OTHER -> 7

\* the members are listed in the teardown order
InTeardownOrder(fields) ==
    \A i, j \in 1 .. Len(fields) :
        i < j => TeardownRank(fields[i]) <= TeardownRank(fields[j])

\* the swapchain-dependent members that hold an object
Held(E) ==
    {f \in {"swapChainFramebuffers", "swapChainImageViews", "uniformBuffers"} :
        E[f] # <<>>}
    \cup {f \in {"graphicsPipeline", "pipelineLayout", "renderPass", "swapChain",
                  "descriptorPool"} : E[f] # VK_NULL_HANDLE}

\* C16: swapchain teardown (in a rebuild and at shutdown) destroys the
\* objects in the order framebuffers, then pipeline / pipeline layout /
\* render pass, then image views, then the swapchain, then the per-frame
\* uniform buffers, then the descriptor pool, and destroys all of them; and
\* a rebuild creates a new swapchain-dependent object only after the
\* teardown of the old ones has finished.
C16_TeardownOrder ==
    [][ /\ (Leaves("rc_idle") \/ Leaves("dtor"))
            => /\ InTeardownOrder(engine'.destroyed)
               /\ Held(engine) \subseteq Range(engine'.destroyed)
               /\ Held(engine') = {}
               /\ SwapChainObjects(engine) \cap engine'.live = {}
        /\ (pc \in {"rc_stall", "rc_read", "rc_size", "rc_wait", "rc_idle",
                    "rc_create"} /\ ~(engine'.live \subseteq engine.live))
            => /\ Leaves("rc_create")
               /\ Held(engine) = {}
               /\ rebuild.old \cap engine.live = {} ]_vars

\* a rebuild has torn down a complete set of swapchain objects and is about
\* to create the new ones
C16_Witness ==
    /\ pc = "rc_create"
    /\ Len(engine.destroyed) = 8
    /\ rebuild.old # {}

\* --------------------------------------------------------------------- C17
\* C17: a rebuild started while the drawable size is zero in width or
\* height creates no swapchain while the size it reads stays zero, and once
\* it has read a nonzero size it completes with a swapchain of nonzero
\* extent and drawFrame goes on.
C17_StalledRebuildResumes ==
    /\ [](pc \in {"rc_idle", "rc_create"} => ~rebuild.minimized)
    /\ [][ /\ (pc \in {"rc_read", "rc_size", "rc_wait"}) => engine' = engine
           /\ (Leaves("rc_create") /\ rebuild.stalled /\ rebuild'.clean)
                => /\ engine'.swapChain \in engine'.live
                   /\ engine'.swapChainExtent.width > 0
                   /\ engine'.swapChainExtent.height > 0
                   /\ pc' \in {"poll", "dtor", "df_advance"} ]_vars

\* --------------------------------------------------------------------- C18
\* the program cannot go on unless a call fails
Blocked == ~ENABLED (Next /\ pc' # pc /\ failures' = failures)

\* every drawFrame call eventually returns or raises, if the GPU eventually
\* completes the work submitted to it and the drawable eventually has a
\* size for good
DrawFrameEnds ==
    ( /\ \A s \in Slots : []<>(~gpuPending[s])
      /\ <>[](~Minimized(drawable)) )
        => [](frame.outcome = "running" => <>(frame.outcome # "running"))

C19_FailuresPropagate ==
    /\ [](frame.outcome = "running" => frame.ignored = "none")
    /\ [][ /\ (frame.outcome = "running" /\ failures' # failures
                 /\ pc # "df_present")
                => frame'.outcome = "fatal"
           /\ (Leaves("df_check")
                 /\ frame.present \notin {VK_SUCCESS, VK_SUBOPTIMAL_KHR,
                                          VK_ERROR_OUT_OF_DATE_KHR})
                => frame'.outcome = "fatal" ]_vars

\* --------------------------------------------------------------------- C20
\* C20: the render loop treats the two outcomes distinctly.  A recoverable
\* condition (out-of-date at acquire, reported as SwapChainOutOfDateError;
\* out-of-date or suboptimal at present or a pending resize, after which
\* drawFrame returns) does not end the loop: quit is left as the event loop
\* set it, and unless it is set the loop makes another pass, in which it
\* calls drawFrame again.  Every fatal error raised by drawFrame sets quit
\* and ends the loop, and no frame is attempted after it.
C20_RecoverableGoesOnFatalEnds ==
    /\ [](pc \in {"dtor", "done"} => quit /\ frame.outcome # "running")
    /\ [][ /\ (Returns \/ (Raises /\ frame'.outcome = "ood"))
                => /\ quit' = quit
                   /\ pc' = IF quit THEN "dtor" ELSE "poll"
           /\ (Raises /\ frame'.outcome = "fatal") => quit' /\ pc' = "dtor"
           /\ Leaves("poll") => pc' = "update"
           /\ Leaves("update") => pc' = "df_wait"
           /\ Leaves("df_wait") => frame'.outcome = "running"
           /\ pc \in {"dtor", "done"} => pc' \in {"dtor", "done"} ]_vars

\* the loop is in a drawFrame call after a call that reported
\* SwapChainOutOfDateError
C20_Witness ==
    /\ pc = "df_acquire" /\ frame.outcome = "running"
    /\ frame.prevOutcome = "ood" /\ ~quit

\* --------------------------------------------------------------------- C21
\* the objects of the frame slots that cleanupSwapChain leaves alone: the
\* command buffers (named by their pool), the semaphores and the fences
SlotMembersKept ==
    {"commandBuffers", "imageAvailableSemaphores", "renderFinishedSemaphores",
     "inFlightFences"}
SlotObjectsKept(E) == UNION {Range(E[f]) : f \in SlotMembersKept}

\* the objects of the frame slots that cleanupSwapChain destroys: the uniform
\* buffers with their memory, and the pool of the descriptor sets
SlotObjectsRebuilt(E) ==
    (Range(E.uniformBuffers) \cup Range(E.uniformBuffersMemory)
        \cup {E.descriptorPool}) \ {VK_NULL_HANDLE}

\* exactly MAX_FRAMES_IN_FLIGHT of each resource of a frame slot exist
SlotsComplete(E) ==
    /\ \A f \in SlotMembersKept \cup {"uniformBuffers", "uniformBuffersMemory"} :
          /\ Len(E[f]) = MAX_FRAMES_IN_FLIGHT
          /\ Range(E[f]) \subseteq E.live
    /\ Cardinality(Range(E.uniformBuffers)) = MAX_FRAMES_IN_FLIGHT
    /\ \A f \in SlotMembersKept \ {"commandBuffers"} :
          Cardinality(Range(E[f])) = MAX_FRAMES_IN_FLIGHT
    /\ Len(E.uniformBuffersMapped) = MAX_FRAMES_IN_FLIGHT
    /\ \A i \in 1 .. MAX_FRAMES_IN_FLIGHT : E.uniformBuffersMapped[i]
    /\ Len(E.descriptorSets) = MAX_FRAMES_IN_FLIGHT
    /\ E.descriptorPool \in E.live
    /\ \A i \in 1 .. MAX_FRAMES_IN_FLIGHT :
          E.descriptorSets[i] = [pool |-> E.descriptorPool,
                                 buffer |-> E.uniformBuffers[i]]

\* C21 as stated: every swapchain rebuild destroys and recreates all
\* resources of every frame slot (command buffer, image-available semaphore,
\* render-finished semaphore, fence, uniform buffer, descriptor binding),
\* and after the rebuild exactly MAX_FRAMES_IN_FLIGHT of each exist.
C21_RebuildRecreatesSlots ==
    [][ /\ Leaves("rc_idle")
            => (SlotObjectsKept(engine) \cup SlotObjectsRebuilt(engine))
                   \cap engine'.live = {}
        /\ (Leaves("rc_create") /\ rebuild'.clean) => SlotsComplete(engine') ]_vars

\* C21, amended: every swapchain rebuild destroys and recreates the uniform
\* buffer (with its memory) and the descriptor binding of every frame slot,
\* and leaves the slots' command buffers, image-available semaphores,
\* render-finished semaphores and fences as they are; after a rebuild that
\* completes exactly MAX_FRAMES_IN_FLIGHT of each exist.
C21_RebuildRecreatesBuffersKeepsSync ==
    [][ /\ (Leaves("rc_idle") \/ Leaves("rc_create"))
            => /\ \A f \in SlotMembersKept : engine'[f] = engine[f]
               /\ SlotObjectsKept(engine) \subseteq engine'.live
        /\ Leaves("rc_idle")
            => /\ SlotObjectsRebuilt(engine) \cap engine'.live = {}
               /\ SlotObjectsRebuilt(engine') = {}
        /\ (Leaves("rc_create") /\ rebuild'.clean)
            => /\ SlotsComplete(engine')
               /\ SlotObjectsRebuilt(engine') \cap rebuild.old = {}
               /\ Cardinality(SlotObjectsRebuilt(engine'))
                     = 2 * MAX_FRAMES_IN_FLIGHT + 1 ]_vars

\* a rebuild has completed: the uniform buffers are newer than the
\* semaphores, which were created after the first uniform buffers
C21_Witness ==
    /\ rebuild.clean /\ pc = "df_advance"
    /\ SlotsComplete(engine)
    /\ \A i \in 1 .. MAX_FRAMES_IN_FLIGHT :
          engine.uniformBuffers[i] > engine.imageAvailableSemaphores[i]

\* --------------------------------------------------------------------- C22
\* the device context: instance, surface and logical device (the queues
\* belong to the device)
ContextMembers == {"instance", "surface", "device"}

\* the members that hold an object made with the device: the
\* swapchain-dependent ones, the buffers, the sync objects, the command pool
DeviceMembers(E) ==
    Held(E)
    \cup {f \in {"descriptorSetLayout", "indexBuffer", "indexBufferMemory",
                 "vertexBuffer", "vertexBufferMemory", "commandPool"} :
             E[f] # VK_NULL_HANDLE}
    \cup {f \in {"renderFinishedSemaphores", "imageAvailableSemaphores",
                 "inFlightFences"} : E[f] # <<>>}

\* the members that are vectors of handles
VectorMembers ==
    {"swapChainFramebuffers", "swapChainImageViews", "uniformBuffers",
     "uniformBuffersMemory", "renderFinishedSemaphores",
     "imageAvailableSemaphores", "inFlightFences"}

\* the handles the members of a set hold
HandlesOf(E, fields) ==
    UNION {IF f \in VectorMembers THEN Range(E[f]) ELSE {E[f]} : f \in fields}
        \ {VK_NULL_HANDLE}

\* the place of a member in a teardown log
Place(log, field) == CHOOSE i \in 1 .. Len(log) : log[i] = field

\* C22: the device context (instance, surface, logical device with its
\* queues) is created once, no frame and no rebuild destroys or recreates
\* it, and at shutdown the logical device is destroyed after every
\* swapchain-dependent object, buffer, sync object and the command pool, and
\* before the surface and the instance.
C22_DeviceContextLifetime ==
    /\ [](pc # "done" => /\ \A f \in ContextMembers : engine[f] \in engine.live
                         /\ Cardinality(HandlesOf(engine, ContextMembers)) = 3)
    /\ [][ /\ ~Leaves("dtor") => \A f \in ContextMembers : engine'[f] = engine[f]
           /\ Leaves("dtor")
                => /\ ContextMembers \cup DeviceMembers(engine)
                          \subseteq Range(engine'.destroyed)
                   /\ \A f \in DeviceMembers(engine) :
                          Place(engine'.destroyed, f)
                              < Place(engine'.destroyed, "device")
                   /\ Place(engine'.destroyed, "device")
                          < Place(engine'.destroyed, "surface")
                   /\ Place(engine'.destroyed, "device")
                          < Place(engine'.destroyed, "instance")
                   /\ HandlesOf(engine, ContextMembers \cup DeviceMembers(engine)
                                            \cup {"uniformBuffersMemory"})
                          \cap engine'.live = {}
                   /\ ~engine'.doubleDestroy ]_vars

\* the engine has been shut down after a run in which the swapchain was
\* rebuilt
C22_Witness ==
    /\ pc = "done" /\ rebuild.clean
    /\ {"device", "surface", "instance", "commandPool", "swapChain"}
          \subseteq Range(engine.destroyed)
    /\ engine.live = {}

\* --------------------------------------------------------------------- C23
\* the four criteria of a device, spelled out
Qualifies(device) ==
    /\ \E i \in 1 .. Len(device.queueFamilies) : device.queueFamilies[i].graphics
    /\ \E i \in 1 .. Len(device.queueFamilies) : device.queueFamilies[i].present
    /\ \A i \in 1 .. Len(deviceExtensions) : deviceExtensions[i] \in device.extensions
    /\ Len(device.formats) >= 1 /\ Len(device.presentModes) >= 1

\* C23: pickPhysicalDevice selects the first device in enumeration order
\* that has a graphics queue family, has a queue family able to present to
\* the surface, supports every required device extension, and reports at
\* least one surface format and one present mode; it selects no device that
\* fails one of the four, and initialization fails when no enumerated device
\* satisfies all four.
C23_FirstQualifyingDevice ==
    startup.step = "pickPhysicalDevice"
        => LET devices == startup.devices
               qualifying == {k \in 1 .. Len(devices) : Qualifies(devices[k])}
           IN  /\ qualifying # {}
                    => /\ pc = "createLogicalDevice"
                       /\ startup.physicalDevice \in qualifying
                       /\ \A k \in qualifying : startup.physicalDevice <= k
               /\ qualifying = {}
                    => /\ pc = "failed"
                       /\ startup.error # NoError
                       /\ startup.physicalDevice = VK_NULL_HANDLE

\* the second device is selected: the first one has a graphics family and a
\* present family (two different ones), its extension and its formats, and
\* no present mode
C23_Witness ==
    /\ pc = "createLogicalDevice" /\ startup.physicalDevice = 2
    /\ LET first == startup.devices[1]
       IN  /\ Len(first.queueFamilies) = 2
           /\ first.queueFamilies[1].present /\ ~first.queueFamilies[1].graphics
           /\ first.queueFamilies[2].graphics /\ ~first.queueFamilies[2].present
           /\ first.extensions # {} /\ first.formats # <<>>
           /\ first.presentModes = <<>>

\* --------------------------------------------------------------------- C24
\* the requested validation layers are not installed
LayersUnavailable(s) ==
    s.enableValidationLayers
    /\ \E i \in 1 .. Len(validationLayers) : validationLayers[i] \notin s.availableLayers

\* why an initialization fails: the validation layers, the required device
\* extensions (all that is wrong with every device), no qualifying device
\* (every device has the extensions and fails another criterion, or there
\* is no device), or a mixture
Cause(s) ==
    LET ds == {s.devices[k] : k \in 1 .. Len(s.devices)}
        extended(d) == Range(deviceExtensions) \subseteq d.extensions
        otherwise(d) == Qualifies([d EXCEPT !.extensions = Range(deviceExtensions)])
    IN  IF LayersUnavailable(s) THEN "layers"
        ELSE IF \A d \in ds : extended(d) /\ ~otherwise(d) THEN "device"
        ELSE IF ds # {} /\ \A d \in ds : ~extended(d) /\ otherwise(d)
        THEN "extension"
        ELSE "mixed"

\* the exception the first steps of initVulkan end with
InitError(s) ==
    IF createInstance(s.enableValidationLayers, s.availableLayers) # NoError
    THEN createInstance(s.enableValidationLayers, s.availableLayers)
    ELSE pickPhysicalDevice(s.devices).error

\* one failing initialization for each cause: the layers requested and not
\* installed; a device that lacks only VK_KHR_swapchain; a device that lacks
\* only a graphics queue family
FailingStartups ==
    LET device == [queueFamilies |-> <<[graphics |-> TRUE, present |-> TRUE]>>,
                   extensions |-> Range(deviceExtensions),
                   formats |-> <<B8G8R8A8_SRGB>>,
                   presentModes |-> <<"VK_PRESENT_MODE_FIFO_KHR">>]
        run(layers, d) ==
            [enableValidationLayers |-> layers, availableLayers |-> {},
             devices |-> <<d>>, physicalDevice |-> VK_NULL_HANDLE,
             step |-> "none", error |-> NoError]
    IN  { run(TRUE, device),
          run(FALSE, [device EXCEPT !.extensions = {}]),
          run(FALSE, [device EXCEPT !.queueFamilies[1].graphics = FALSE]) }

\* C24: initialization failures are reported as distinct conditions: the
\* error of a failure because no device qualifies differs from the error of
\* a failure because the required extension set is unsupported, and both
\* differ from the error of a failure because the requested validation
\* layers are not installed.
C24_DistinctInitErrors ==
    pc = "failed"
        => \A other \in FailingStartups :
              ( /\ Cause(startup) # "mixed"
                /\ Cause(other) # Cause(startup) )
                  => InitError(other) # startup.error

\* --------------------------------------------------------------------- C25
\* C25: the requested swapchain image count is minImageCount + 1, reduced to
\* maxImageCount exactly when maxImageCount is nonzero and minImageCount + 1
\* exceeds it; when maxImageCount is zero no upper clamp is applied.
C25_ImageCount ==
    pc = "vkCreateSwapchainKHR" =>
        LET c == support.capabilities
        IN  /\ startup.imageCount \in {c.minImageCount + 1, c.maxImageCount}
            /\ (startup.imageCount # c.minImageCount + 1)
                  <=> (c.maxImageCount # 0 /\ c.minImageCount + 1 > c.maxImageCount)
            /\ c.maxImageCount = 0 => startup.imageCount = c.minImageCount + 1

\* a surface whose maximum is its minimum: the maximum is requested
C25_Witness ==
    /\ pc = "vkCreateSwapchainKHR"
    /\ support.capabilities.maxImageCount = MaxCount
    /\ support.capabilities.minImageCount = MaxCount
    /\ startup.imageCount = MaxCount

\* --------------------------------------------------------------------- C26
\* the places of a list that hold B8G8R8A8 sRGB in the sRGB-nonlinear
\* colour space
PreferredPlaces(formats) ==
    {i \in 1 .. Len(formats) :
        /\ formats[i].format = "VK_FORMAT_B8G8R8A8_SRGB"
        /\ formats[i].colorSpace = "VK_COLOR_SPACE_SRGB_NONLINEAR_KHR"}

\* C26: surface format selection returns the first reported format that is
\* B8G8R8A8 sRGB with the sRGB-nonlinear colour space when the non-empty
\* list contains one, and otherwise the first reported format; the result
\* is always a member of the reported list.
C26_SurfaceFormat ==
    pc = "vkCreateSwapchainKHR" =>
        LET places == PreferredPlaces(support.formats)
        IN  /\ \E i \in 1 .. Len(support.formats) :
                  startup.surfaceFormat = support.formats[i]
            /\ places # {}
                  => \E i \in places :
                        /\ startup.surfaceFormat = support.formats[i]
                        /\ \A j \in places : i <= j
            /\ places = {} => startup.surfaceFormat = support.formats[1]

\* B8G8R8A8 sRGB in another colour space is reported first and the preferred
\* format second: the second is selected
C26_Witness ==
    /\ pc = "vkCreateSwapchainKHR"
    /\ support.formats[1].format = "VK_FORMAT_B8G8R8A8_SRGB"
    /\ support.formats[1].colorSpace # "VK_COLOR_SPACE_SRGB_NONLINEAR_KHR"
    /\ PreferredPlaces(support.formats) = {2}
    /\ startup.surfaceFormat = support.formats[2]

\* --------------------------------------------------------------------- C27
\* C27: present-mode selection returns the mailbox mode if and only if the
\* reported list contains it, and otherwise returns the FIFO mode.
C27_PresentMode ==
    pc = "vkCreateSwapchainKHR" =>
        LET reported == \E i \in 1 .. Len(support.presentModes) :
                           support.presentModes[i] = "VK_PRESENT_MODE_MAILBOX_KHR"
        IN  /\ startup.presentMode = "VK_PRESENT_MODE_MAILBOX_KHR" <=> reported
            /\ ~reported => startup.presentMode = "VK_PRESENT_MODE_FIFO_KHR"

\* mailbox is reported after another mode and is selected
C27_Witness ==
    /\ pc = "vkCreateSwapchainKHR"
    /\ Len(support.presentModes) = 2
    /\ support.presentModes[1] = "VK_PRESENT_MODE_IMMEDIATE_KHR"
    /\ support.presentModes[2] = "VK_PRESENT_MODE_MAILBOX_KHR"
    /\ startup.presentMode = "VK_PRESENT_MODE_MAILBOX_KHR"

SignalsImageAvailable(s) ==
    /\ Len(inflight'[s]) = Len(inflight[s])
    /\ \E i \in 1 .. Len(inflight[s]) : ~inflight[s][i].ready /\ inflight'[s][i].ready

\* a step signals the render-finished semaphore of slot s: one of the slot's
\* submissions is executed, which also takes the image-available signal
SignalsRenderFinished(s) == imageAvailable[s] /\ ~imageAvailable'[s]

\* C29: a slot's binary semaphore is never signaled again while an earlier
\* signal of it is still unconsumed: the render-finished semaphore is not
\* re-signaled by a new submit while a previous present that waits on it is
\* still pending, and the image-available semaphore is not passed to a new
\* acquire while a previous signal has not been waited on, across frames,
\* aborts and rebuilds.
C29_NoSignalWhileUnconsumed ==
    [][ \A s \in Slots :
          /\ SignalsRenderFinished(s) => ~renderFinished[s]
          /\ SignalsImageAvailable(s) => ~imageAvailable[s]
          /\ (pc = "df_acquire" /\ pc' = "df_reset" /\ s = currentFrame)
                => \A i \in 1 .. Len(inflight[s]) : inflight[s][i].stage = "rendered" ]_vars

\* --------------------------------------------------------------------- C30
\* the steps of drawFrame, in the order of the code
DrawFrameSteps ==
    <<"df_wait", "df_acquire", "df_reset", "df_record", "df_submit",
      "df_present", "df_check", "df_advance">>

\* the place of a step in drawFrame, 0 for a position outside it
StepRank(p) ==
    IF \E i \in 1 .. Len(DrawFrameSteps) : DrawFrameSteps[i] = p
    THEN CHOOSE i \in 1 .. Len(DrawFrameSteps) : DrawFrameSteps[i] = p
    ELSE 0

\* C30: within one drawFrame call the steps occur in the fixed order fence
\* wait, acquire, fence reset, command-buffer reset and re-record, submit,
\* present, cursor advance, and per slot the lifecycle is strictly
\* sequential: a slot never starts a new acquire or record while its
\* previous frame has not returned to idle (its fence signaled).
C30_StepOrderAndSlotLifecycle ==
    /\ [][ /\ (StepRank(pc) > 0 /\ StepRank(pc') > 0 /\ pc' # pc)
                => StepRank(pc') = StepRank(pc) + 1
           /\ (StepRank(pc) = 0 /\ StepRank(pc') > 0)
                => \/ pc' = "df_wait"
                   \/ pc' = "df_advance" /\ caller = "present" /\ frame.presented
           /\ Leaves("df_advance") => frame.presented ]_vars
    /\ [](pc = "df_reset" => frame.acquire \in {VK_SUCCESS, VK_SUBOPTIMAL_KHR})
    /\ [](pc = "df_submit" => frame.fenceReset /\ frame.recorded)
    /\ [](pc = "df_present" => frame.submitted)
    /\ [](pc \in {"df_acquire", "df_reset", "df_record"}
            => /\ ~gpuPending[currentFrame]
               /\ pc = "df_acquire" => signaled[currentFrame])

\* --------------------------------------------------------------------- C31
\* C31: after every swapchain rebuild no frame is in flight and every
\* slot's fence is signaled, so the first drawFrame on each slot after a
\* rebuild passes its fence wait without depending on any GPU work submitted
\* before the rebuild.
C31_RebuildLeavesSlotsIdle ==
    /\ [][ (Leaves("rc_create") /\ rebuild'.clean)
              => \A s \in Slots : ~gpuPending'[s] /\ signaled'[s] ]_vars
    /\ []( (rebuild.clean /\ pc = "df_wait")
              => \A s \in Slots : ~gpuPending[s] /\ signaled[s] )

\* --------------------------------------------------------------------- C32
\* the descriptor set of slot i is allocated from the live descriptor pool
\* and refers to the slot's uniform buffer, which is live and mapped
SlotBound(E, i) ==
    /\ Len(E.descriptorSets) >= i /\ Len(E.uniformBuffers) >= i
    /\ E.descriptorSets[i].pool = E.descriptorPool
    /\ E.descriptorPool \in E.live
    /\ E.descriptorSets[i].buffer = E.uniformBuffers[i]
    /\ E.uniformBuffers[i] \in E.live
    /\ E.uniformBuffersMemory[i] \in E.live
    /\ E.uniformBuffersMapped[i]

\* C32: whenever a command buffer is recorded, the descriptor set bound for
\* the active slot refers to that slot's currently live, mapped uniform
\* buffer: after any sequence of rebuilds, descriptor set i points at
\* uniform buffer i of the same generation and never at a destroyed buffer,
\* and the main loop's updateCubeRotation never finds the active slot
\* unmapped.
C32_DescriptorSetsFollowBuffers ==
    /\ pc = "df_record" => SlotBound(engine, currentFrame + 1)
    /\ pc \in {"df_record", "df_submit", "update"}
          => \A i \in 1 .. MAX_FRAMES_IN_FLIGHT : SlotBound(engine, i)
    /\ pc = "update"
          => /\ Len(engine.uniformBuffersMapped) > currentFrame
             /\ engine.uniformBuffersMapped[currentFrame + 1]

\* a command buffer is recorded after a rebuild has replaced the uniform
\* buffers and the descriptor sets
C32_Witness ==
    /\ pc = "df_record" /\ rebuild.surface # <<>>
    /\ SlotBound(engine, currentFrame + 1)
    /\ engine.uniformBuffers[currentFrame + 1] > engine.imageAvailableSemaphores[1]

\* --------------------------------------------------------------------- C33
\* the positions of drawFrame at which imageIndex holds an acquired index
HoldsImageIndex == pc \in {"df_reset", "df_record", "df_submit", "df_present"}

OneGeneration(E) ==
    /\ E.renderPass \in E.live /\ E.graphicsPipeline \in E.live
    /\ E.swapChain \in E.live
    /\ E.builtWith.pipelineRenderPass = E.renderPass
    /\ E.builtWith.framebufferRenderPass = E.renderPass
    /\ E.builtWith.format = E.swapChainImageFormat
    /\ E.swapChain < E.renderPass
    /\ E.renderPass < E.graphicsPipeline
    /\ \A i \in 1 .. Len(E.swapChainFramebuffers) :
          /\ E.swapChainFramebuffers[i] \in E.live
          /\ E.swapChainFramebuffers[i] > E.graphicsPipeline

\* C34: whenever a command buffer is recorded, the bound graphics pipeline
\* was built against the current render pass, the framebuffers were built
\* against that same render pass, and that render pass was built for the
\* image format of the currently active swapchain; no frame is ever
\* recorded with a pipeline, render pass or framebuffer from an earlier
\* swapchain generation.
C34_RecordsWithCurrentGeneration ==
    pc \in {"df_record", "df_submit"} => OneGeneration(engine)

\* a command buffer is recorded with the objects of a rebuilt swapchain
C34_Witness ==
    /\ pc = "df_record" /\ rebuild.surface # <<>>
    /\ OneGeneration(engine)
    /\ engine.renderPass > engine.imageAvailableSemaphores[1]

\* --------------------------------------------------------------------- C36
\* C36: every shader module created by a pipeline build is destroyed before
\* that build finishes, both when the build succeeds and when
\* pipeline-layout or pipeline creation fails; no shader module outlives
\* createGraphicsPipeline on any path, during initialization or during a
\* rebuild.
C36_NoShaderModuleOutlivesBuild ==
    engine.shaderModules \cap engine.live = {}

\* --------------------------------------------------------------------- C35
\* the handles created by the calls of initVulkan before call number step
CreatedBefore(step) ==
    UNION {startup.created[k] : k \in 1 .. (step - 1)}

\* the members that hold handles are null or empty
Emptied(E) ==
    /\ \A f \in ContextMembers \cup {"swapChain", "renderPass", "pipelineLayout",
                "graphicsPipeline", "descriptorSetLayout", "commandPool",
                "vertexBuffer", "vertexBufferMemory", "indexBuffer",
                "indexBufferMemory", "descriptorPool"} : E[f] = VK_NULL_HANDLE
    /\ \A f \in {"swapChainImageViews", "swapChainFramebuffers", "uniformBuffers",
                 "uniformBuffersMemory", "imageAvailableSemaphores",
                 "renderFinishedSemaphores", "inFlightFences"} : E[f] = <<>>

\* C35: if initialization fails at any step of initVulkan, the constructor
\* destroys every object created by the earlier steps exactly once,
\* destroys nothing that was never created, and re-raises the original
\* error; running cleanup again on the cleaned-up state destroys nothing a
\* second time.  (What is left alive are handles the failing step itself
\* held in locals.)
C35_FailedInitCleansUp ==
    pc = "rethrown"
       => /\ CreatedBefore(startup.step) \cap engine.live = {}
          /\ engine.live \subseteq startup.created[startup.step]
          /\ engine.live \subseteq engine.shaderModules \cup engine.staging
          /\ ~engine.doubleDestroy
          /\ startup.rethrown = startup.thrown
          /\ startup.rethrown # NoError
          /\ Emptied(engine)
          /\ cleanup(engine).live = engine.live
          /\ ~cleanup(engine).doubleDestroy
          /\ cleanup(engine).destroyed = <<>>

\* createSyncObjects, the last step, has failed with a fence it could not
\* create, and the constructor has destroyed everything the run had created
C35_Witness ==
    /\ pc = "rethrown" /\ startup.step = Len(InitSteps)
    /\ startup.alive # {} /\ engine.live = {}
    /\ CreatedBefore(startup.step) # {}
    /\ startup.created[startup.step] # {}


\* the coordinate v brought into the range 0 .. (n - 1)
Clamped(v, n) == IF v < 0 THEN 0 ELSE IF v > n - 1 THEN n - 1 ELSE v

\* the first channel of the pixel at (x, z) of the image, after clamping
ClampedPixel(x, z, image) ==
    image.pixels[(Clamped(z, image.height) * image.width
                  + Clamped(x, image.width)) * image.channels]

\* C37: once LoadFromHeightmap has succeeded on an image of width w >= 1
\* and height h >= 1, there are w*h vertices, the vertex of (x, z) at place
\* z*w + x, and 6*(w-1)*(h-1) indices, each in [0, w*h); the quad at (x, z)
\* contributes (topLeft, bottomLeft, topRight) and (topRight, bottomLeft,
\* bottomRight); and every height sampled at a neighbour coordinate, also
\* one outside the grid, is the clamped in-range pixel.
C37_GridVerticesAndIndices ==
    (pc = "returned" /\ startup.result) =>
        LET w == support.width
            h == support.height
            v == startup.outVertices
            ix == startup.outIndices
        IN  /\ Len(v) = w * h
            /\ \A z \in 0 .. (h - 1), x \in 0 .. (w - 1) :
                  /\ v[z * w + x + 1].pos = <<x, ClampedPixel(x, z, support), z>>
                  /\ v[z * w + x + 1].normal =
                        [hl |-> ClampedPixel(x - 1, z, support),
                         hr |-> ClampedPixel(x + 1, z, support),
                         hd |-> ClampedPixel(x, z - 1, support),
                         hu |-> ClampedPixel(x, z + 1, support)]
            /\ Len(ix) = 6 * (w - 1) * (h - 1)
            /\ \A k \in 1 .. Len(ix) : ix[k] >= 0 /\ ix[k] < w * h
            /\ \A z \in 0 .. (h - 2), x \in 0 .. (w - 2) :
                  LET q == z * (w - 1) + x
                      topLeft == z * w + x
                      bottomLeft == (z + 1) * w + x
                  IN  SubSeq(ix, 6 * q + 1, 6 * q + 6) =
                          <<topLeft, bottomLeft, topLeft + 1,
                            topLeft + 1, bottomLeft, bottomLeft + 1>>

\* a loaded grid with four quads, whose border vertices sample outside it
C37_Witness ==
    /\ pc = "returned"
    /\ startup.result
    /\ support.width = 3
    /\ support.height = 3
    /\ Len(startup.outIndices) = 24
    /\ startup.outVertices[9].normal.hr = startup.outVertices[9].pos[2]

====
